---- MODULE Spec2Model ----
(***************************************************************************)
(* Model of BaseSlab (tleedmlib/classes/slab/base_slab.py): a slab of      *)
(* atoms in a unit cell, its layers and sublayers, the symmetry tests and  *)
(* the transformations.                                                    *)
(*                                                                         *)
(* Numbers.  Every float of the program is modelled as an exact rational   *)
(* <<n, d>> (d > 0, lowest terms).  Vectors are tuples of rationals, the   *)
(* unit cell is a tuple of three rows of rationals (ucell[i][j] is numpy's *)
(* ucell[i-1, j-1]; the unit vectors a, b, c are the columns).             *)
(* Objects.  Atom objects live in the heap `atoms` (atom id -> fields);    *)
(* slabs and layers hold atom ids, as the Python lists hold references.    *)
(* None is the empty tuple, a present optional value x is <<x>>.           *)
(***************************************************************************)
EXTENDS Integers, Sequences, FiniteSets, TLC

VARIABLES
    atoms,  \* heap of Atom objects: id -> [el, pos, cartpos, oriN, layer]
    slab,   \* the slab the operations are called on (fields of BaseSlab)
    sc,     \* the slab returned by the last makeSupercell call, or None
    last,   \* the last call: [op, arg, exc, ret]
    files,  \* the work directory: file name -> None or <<its lines>>
    editor  \* the ParametersFileEditor of the directory, or None

vars == <<atoms, slab, sc, last, files, editor>>

None == <<>>

----------------------------------------------------------------------------
(* Exact rational arithmetic                                               *)

Abs(x) == IF x < 0 THEN -x ELSE x

RECURSIVE GCD(_, _)
GCD(a, b) == IF b = 0 THEN a ELSE GCD(b, a % b)

\* the rational n/d in lowest terms with a positive denominator
R(n, d) ==
    LET g == GCD(Abs(n), Abs(d))
        s == IF d < 0 THEN -1 ELSE 1
    IN  <<(s * n) \div g, (s * d) \div g>>

Q(k) == <<k, 1>>
Zero == Q(0)
One == Q(1)

\* sums and differences over the least common denominator
RAdd(x, y) ==
    R(x[1] * (y[2] \div GCD(x[2], y[2])) + y[1] * (x[2] \div GCD(x[2], y[2])),
      (x[2] \div GCD(x[2], y[2])) * y[2])
RNeg(x) == <<-x[1], x[2]>>
RSub(x, y) == RAdd(x, RNeg(y))
RMul(x, y) == R(x[1] * y[1], x[2] * y[2])
RAbs(x) == <<Abs(x[1]), x[2]>>
RLt(x, y) == x[1] * y[2] < y[1] * x[2]
RLe(x, y) == x[1] * y[2] <= y[1] * x[2]
RInv(x) == R(x[2], x[1])
\* half the distance from 1.0 to the float below it (2^-54 for the floats
\* of the code, 2^-21 for those of the model)
HalfUlp == <<1, 2097152>>
\* x % 1.0: the remainder is rounded to a float, so that one within HalfUlp
\* of 1 is 1.0 (as in -1e-17 % 1.0 == 1.0)
RMod1(x) ==
    IF x[2] - (x[1] % x[2]) <= x[2] \div HalfUlp[2] THEN <<1, 1>>
    ELSE R(x[1] % x[2], x[2])
RIsInt(x) == x[2] = 1

\* the list (array) with the entries f[1], ..., f[n]
Tuple(f) == SubSeq(f, 1, Len(f))

\* vectors of rationals
Vec3(x, y, z) == <<Q(x), Q(y), Q(z)>>
VAdd(u, v) == Tuple([i \in DOMAIN u |-> RAdd(u[i], v[i])])
VSub(u, v) == Tuple([i \in DOMAIN u |-> RSub(u[i], v[i])])
VScale(k, u) == Tuple([i \in DOMAIN u |-> RMul(k, u[i])])
VMod1(u) == Tuple([i \in DOMAIN u |-> RMod1(u[i])])
\* squared Euclidean norm
Norm2(u) ==
    IF Len(u) = 2 THEN RAdd(RMul(u[1], u[1]), RMul(u[2], u[2]))
    ELSE RAdd(RAdd(RMul(u[1], u[1]), RMul(u[2], u[2])), RMul(u[3], u[3]))

\* matrices: tuples of rows
Dot2(m, v) == <<RAdd(RMul(m[1][1], v[1]), RMul(m[1][2], v[2])),
                RAdd(RMul(m[2][1], v[1]), RMul(m[2][2], v[2]))>>
Dot3(m, v) ==
    Tuple([i \in 1..3 |->
            RAdd(RAdd(RMul(m[i][1], v[1]), RMul(m[i][2], v[2])),
                 RMul(m[i][3], v[3]))])
MatMul3(m, n) ==
    Tuple([i \in 1..3 |-> Tuple([j \in 1..3 |->
        RAdd(RAdd(RMul(m[i][1], n[1][j]), RMul(m[i][2], n[2][j])),
             RMul(m[i][3], n[3][j]))])])
Transpose3(m) == Tuple([i \in 1..3 |-> Tuple([j \in 1..3 |-> m[j][i]])])
QMat(m) ==
    Tuple([i \in DOMAIN m |-> Tuple([j \in DOMAIN m[i] |-> Q(m[i][j])])])
Identity3 == QMat(<<<<1, 0, 0>>, <<0, 1, 0>>, <<0, 0, 1>>>>)
Det2(m) == RSub(RMul(m[1][1], m[2][2]), RMul(m[1][2], m[2][1]))
Det3(m) ==
    RAdd(RSub(RMul(m[1][1], RSub(RMul(m[2][2], m[3][3]), RMul(m[2][3], m[3][2]))),
              RMul(m[1][2], RSub(RMul(m[2][1], m[3][3]), RMul(m[2][3], m[3][1])))),
         RMul(m[1][3], RSub(RMul(m[2][1], m[3][2]), RMul(m[2][2], m[3][1]))))
\* np.linalg.inv of a 2x2 and of a 3x3 matrix (callers test Det # 0 first:
\* numpy raises LinAlgError on a singular matrix)
Inv2(m) ==
    LET di == RInv(Det2(m))
    IN  <<<<RMul(m[2][2], di), RNeg(RMul(m[1][2], di))>>,
          <<RNeg(RMul(m[2][1], di)), RMul(m[1][1], di)>>>>
Minor3(m, i, j) ==
    LET rs == IF i = 1 THEN <<2, 3>> ELSE IF i = 2 THEN <<1, 3>> ELSE <<1, 2>>
        cs == IF j = 1 THEN <<2, 3>> ELSE IF j = 2 THEN <<1, 3>> ELSE <<1, 2>>
    IN  RSub(RMul(m[rs[1]][cs[1]], m[rs[2]][cs[2]]),
             RMul(m[rs[1]][cs[2]], m[rs[2]][cs[1]]))
Inv3(m) ==
    LET di == RInv(Det3(m))
    IN  Tuple([i \in 1..3 |-> Tuple([j \in 1..3 |->
            RMul(IF (i + j) % 2 = 0 THEN di ELSE RNeg(di), Minor3(m, j, i))])])

----------------------------------------------------------------------------
(* Sequences                                                               *)

Range(s) == {s[i] : i \in DOMAIN s}
Reverse(s) == Tuple([i \in 1..Len(s) |-> s[Len(s) + 1 - i]])
\* list.sort(key=...): the stable sort of s by the strict order Lt
SortedBy(s, Lt(_, _)) ==
    LET n == Len(s)
        rank(i) == Cardinality({j \in 1..n :
                        Lt(s[j], s[i]) \/ (~Lt(s[i], s[j]) /\ j < i)}) + 1
    IN  Tuple([k \in 1..n |-> s[CHOOSE i \in 1..n : rank(i) = k]])
\* the elements of s that satisfy Test, in order
RECURSIVE SelectIdx(_, _, _)
SelectIdx(s, keep, i) ==
    IF i > Len(s) THEN <<>>
    ELSE (IF i \in keep THEN <<s[i]>> ELSE <<>>) \o SelectIdx(s, keep, i + 1)
Filter(s, Test(_)) == SelectIdx(s, {i \in DOMAIN s : Test(s[i])}, 1)

----------------------------------------------------------------------------
(* Atoms, layers and slabs                                                 *)

\* chemical elements, in the order Python compares their names
ElNames == <<"Ag", "O">>
ElRank(el) == CHOOSE i \in DOMAIN ElNames : ElNames[i] = el
ElLt(e1, e2) == ElRank(e1) < ElRank(e2)

\* an Atom object; layer is the num of the Layer object atom.layer refers to
Atom(el, pos, oriN) ==
    [el |-> el, pos |-> pos, cartpos |-> pos, oriN |-> oriN, layer |-> None]

\* a Layer object (Layer.__init__)
Layer(num, isBulk) ==
    [num |-> num, isBulk |-> isBulk, atlist |-> <<>>,
     cartori |-> None, cartbotz |-> None]

\* a slab as BaseSlab.__init__ leaves it, with a unit cell and atoms set
BaseSlab(ucell, atlist, elements, is_bulk) ==
    [ucell |-> ucell, atlist |-> atlist, elements |-> elements,
     layers |-> <<>>, sublayers |-> <<>>, ucell_mod |-> <<>>,
     topat_ori_z |-> None, bulkslab |-> None,
     layers_initialized |-> FALSE, is_bulk |-> is_bulk]

\* the result of a call: the heap and the slab it leaves, the exception it
\* raised ("" for a normal return) and the value it returned
Outcome(h, s, exc, ret) ==
    [atoms |-> Tuple(h), slab |-> s, exc |-> exc, ret |-> ret]

\* atlist.sort(key=lambda atom: atom.pos[2]) on a list of atom ids
SortedByZ(h, ids) ==
    LET Lower(i, j) == RLt(h[i].pos[3], h[j].pos[3])
    IN  SortedBy(ids, Lower)

c_vec(s) == <<s.ucell[1][3], s.ucell[2][3], s.ucell[3][3]>>

\* BaseSlab.getCartesianCoordinates
getCartesianCoordinates(h, s, updateOrigin) ==
    LET al == SortedByZ(h, s.atlist)
        topat == al[Len(al)]
        topcart == Dot3(s.ucell, h[topat].pos)
        ori == IF updateOrigin \/ s.topat_ori_z = None
               THEN topcart[3] ELSE s.topat_ori_z[1]
        Cart(pos) == LET cp == Dot3(s.ucell, pos)
                     IN  <<cp[1], cp[2], RSub(ori, cp[3])>>
    IN  Outcome([id \in DOMAIN h |->
                    IF id \in Range(al)
                    THEN [h[id] EXCEPT !.cartpos = Cart(h[id].pos)]
                    ELSE h[id]],
                [s EXCEPT !.topat_ori_z = <<ori>>], "", None)

\* BaseSlab.getFractionalCoordinates (np.linalg.inv raises LinAlgError on a
\* singular unit cell, topat_ori_z - tp[2] TypeError while topat_ori_z is
\* None); the variant below it leaves out the z origin
getFractionalCoordinates_NoOrigin(h, s) ==
    IF Det3(s.ucell) = Zero THEN Outcome(h, s, "LinAlgError", None)
    ELSE IF s.topat_ori_z = None THEN Outcome(h, s, "TypeError", None)
    ELSE
    LET uci == Inv3(s.ucell)
        Frac(cp) == Dot3(uci, cp)
    IN  Outcome([id \in DOMAIN h |->
                    IF id \in Range(s.atlist)
                    THEN [h[id] EXCEPT !.pos = Frac(h[id].cartpos)]
                    ELSE h[id]],
                s, "", None)
getFractionalCoordinates(h, s) ==
    IF Det3(s.ucell) = Zero THEN Outcome(h, s, "LinAlgError", None)
    ELSE IF s.topat_ori_z = None THEN Outcome(h, s, "TypeError", None)
    ELSE
    LET uci == Inv3(s.ucell)
        Frac(cp) == Dot3(uci, <<cp[1], cp[2], RSub(s.topat_ori_z[1], cp[3])>>)
    IN  Outcome([id \in DOMAIN h |->
                    IF id \in Range(s.atlist)
                    THEN [h[id] EXCEPT !.pos = Frac(h[id].cartpos)]
                    ELSE h[id]],
                s, "", None)

\* BaseSlab.collapseFractionalCoordinates
collapseFractionalCoordinates(h, s) ==
    Outcome([id \in DOMAIN h |->
                IF id \in Range(s.atlist)
                THEN [h[id] EXCEPT !.pos = VMod1(h[id].pos)]
                ELSE h[id]],
            s, "", None)

\* Layer.getLayerPos / Layer.update_position
getLayerPos(h, s, layer) ==
    LET sorted_atoms == SortedByZ(h, layer.atlist)
        topat == sorted_atoms[Len(sorted_atoms)]
        botat == sorted_atoms[1]
        ori == VScale(h[topat].pos[3], c_vec(s))
    IN  [layer EXCEPT !.cartbotz = <<h[botat].cartpos[3]>>,
                      !.cartori = <<<<ori[1], ori[2], h[topat].cartpos[3]>>>>]

\* BaseSlab.check_a_b_out_of_plane: whether it raises
a_b_out_of_plane(s) == s.ucell[3][1] # Zero \/ s.ucell[3][2] # Zero

----------------------------------------------------------------------------
(* Layering: BaseSlab.createLayers                                         *)

\* the layer number an atom at fractional height z gets when the previous
\* atom got laynum: a new layer for every cutoff the atom lies above
RECURSIVE NextLaynum(_, _, _)
NextLaynum(z, laynum, ct) ==
    IF laynum < Len(ct) /\ RLt(ct[laynum + 1], z)
    THEN NextLaynum(z, laynum + 1, ct)
    ELSE laynum

\* the layer numbers of the atoms of al (sorted by z), from atom i on
RECURSIVE Laynums(_, _, _, _, _)
Laynums(h, al, ct, i, laynum) ==
    IF i > Len(al) THEN <<>>
    ELSE LET l == NextLaynum(h[al[i]].pos[3], laynum, ct)
         IN  <<l>> \o Laynums(h, al, ct, i + 1, l)

\* the loop over dl: each empty layer hands its bulk flag to
\* self.layers[layer.num+1] and is removed from self.layers.  dl holds the
\* nums the empty Layer objects were created with
RECURSIVE RemoveEmptyLayers(_, _, _)
RemoveEmptyLayers(layers, dl, i) ==
    IF i > Len(dl) THEN [layers |-> layers, exc |-> ""]
    ELSE
      LET IsIt(l) == l.num = dl[i]
          NotIt(l) == l.num # dl[i]
          layer == Filter(layers, IsIt)[1]
      IN  IF layer.isBulk /\ layer.num + 2 > Len(layers)
          THEN [layers |-> layers, exc |-> "IndexError"]
          ELSE RemoveEmptyLayers(
                   Filter(IF layer.isBulk
                          THEN [layers EXCEPT ![layer.num + 2].isBulk = TRUE]
                          ELSE layers, NotIt),
                   dl, i + 1)

\* BaseSlab.createLayers(rparams) for rparams.LAYER_CUTS a list of floats
\* and no bulk_cuts; returns ct
createLayers(h, s, LAYER_CUTS, N_BULK_LAYERS) ==
    IF a_b_out_of_plane(s) THEN Outcome(h, s, "InvalidUnitCellError", None)
    ELSE
      LET ct == SortedBy(LAYER_CUTS, RLt)
          tmplist == s.atlist
          al == SortedByZ(h, s.atlist)
          nums == Laynums(h, al, ct, 1, 0)
          built == [k \in 1..(nums[Len(nums)] + 1) |->
                       LET InLayer(i) == nums[i] = k - 1
                       IN  [Layer(k - 1, N_BULK_LAYERS > k - 1) EXCEPT
                              !.atlist = [j \in 1..Cardinality({i \in DOMAIN al : InLayer(i)})
                                            |-> al[CHOOSE i \in DOMAIN al :
                                                     /\ InLayer(i)
                                                     /\ Cardinality({m \in 1..i : InLayer(m)}) = j]]]]
          Empty(l) == l.atlist = <<>>
          emptied == Filter(built, Empty)
          dl == [i \in DOMAIN emptied |-> emptied[i].num]
          removed == RemoveEmptyLayers(built, dl, 1)
          \* atom.layer = newlayer: the atom refers to the Layer object
          hl(layers) == [id \in DOMAIN h |->
                          IF \E l \in Range(layers) : id \in Range(l.atlist)
                          THEN [h[id] EXCEPT !.layer =
                                  <<(CHOOSE l \in Range(layers) :
                                        id \in Range(l.atlist)).num>>]
                          ELSE h[id]]
          rev == Reverse(removed.layers)
          final == [i \in DOMAIN rev |->
                       [getLayerPos(h, s, rev[i]) EXCEPT !.num = i - 1]]
      IN  IF removed.exc # ""
          THEN Outcome(hl(removed.layers),
                       [s EXCEPT !.layers = removed.layers, !.atlist = al],
                       removed.exc, None)
          ELSE Outcome(hl(final),
                       [s EXCEPT !.layers = final, !.atlist = tmplist,
                                 !.layers_initialized = TRUE],
                       "", <<ct>>)

----------------------------------------------------------------------------
(* Sublayers: BaseSlab.createSublayers                                     *)

\* |z(a) - z(b)| > eps for the Cartesian z of two atoms
ZApart(h, a, b, eps) == RLt(eps, RAbs(RSub(h[a].cartpos[3], h[b].cartpos[3])))

\* sublists without entry i, with the two parts of entry i cut before
\* (1-based) position j appended
SplitAt(sublists, i, j) ==
    LET ls == sublists[i]
    IN  SelectIdx(sublists, DOMAIN sublists \ {i}, 1)
          \o <<SubSeq(ls, 1, j - 1), SubSeq(ls, j, Len(ls))>>

\* first pass: split where two z-consecutive atoms are more than eps apart
RECURSIVE SplitAtGaps(_, _, _, _)
SplitAtGaps(h, sublists, i, eps) ==
    IF i > Len(sublists) THEN sublists
    ELSE
      LET ls == sublists[i]
          gaps == {j \in 2..Len(ls) : ZApart(h, ls[j], ls[j - 1], eps)}
      IN  IF Len(ls) > 1 /\ gaps # {}
          THEN SplitAtGaps(h, SplitAt(sublists, i,
                                  CHOOSE j \in gaps : \A k \in gaps : j <= k),
                           i, eps)
          ELSE SplitAtGaps(h, sublists, i + 1, eps)

\* second pass: split the lists that are too thick overall at their
\* greatest distance between consecutive atoms
RECURSIVE SplitThick(_, _, _, _)
SplitThick(h, sublists, i, eps) ==
    IF i > Len(sublists) THEN sublists
    ELSE
      LET ls == sublists[i]
          d(j) == RAbs(RSub(h[ls[j]].cartpos[3], h[ls[j - 1]].cartpos[3]))
          \* the first j whose distance no earlier or later one exceeds
          maxdistindex == CHOOSE j \in 2..Len(ls) :
                              /\ \A k \in 2..Len(ls) : RLe(d(k), d(j))
                              /\ \A k \in 2..(j - 1) : RLt(d(k), d(j))
      IN  IF Len(ls) > 1
          THEN IF ZApart(h, ls[1], ls[Len(ls)], eps)
               THEN SplitThick(h, SplitAt(sublists, i, maxdistindex), i, eps)
               ELSE SplitThick(h, sublists, i + 1, eps)
          ELSE SplitThick(h, sublists, i + 2, eps)

\* the splitting of the atoms of all elements together
ElementSublists_NoElementFilter(h, al, el, eps) ==
    SplitThick(h, SplitAtGaps(h, <<al>>, 1, eps), 1, eps)

\* the sublists of one element
ElementSublists(h, al, el, eps) ==
    LET IsEl(id) == h[id].el = el
    IN  SplitThick(h, SplitAtGaps(h, <<Filter(al, IsEl)>>, 1, eps), 1, eps)

\* the sublayers of all elements, in the order they are appended to subl
RECURSIVE AllSublists(_, _, _, _, _)
AllSublists(h, al, elements, k, eps) ==
    IF k > Len(elements) THEN <<>>
    ELSE ElementSublists(h, al, elements[k], eps)
           \o AllSublists(h, al, elements, k + 1, eps)

\* the accumulation loop: pop sublayers off the end of subl, group those
\* within eps of the first of the group, sort each group by element
RECURSIVE Accumulate(_, _, _)
Accumulate(h, subl, eps) ==
    IF subl = <<>> THEN <<>>
    ELSE
      LET n == Len(subl)
          first == subl[n]
          Near(k) == RLt(RAbs(RSub(subl[k].cartbotz[1], first.cartbotz[1])), eps)
          \* the sublayers popped into acc: subl[m+1..n], from the end
          m == CHOOSE m \in 0..(n - 1) :
                   /\ \A k \in (m + 1)..(n - 1) : Near(k)
                   /\ m > 0 => ~Near(m)
          acc == [k \in 1..(n - m) |-> subl[n + 1 - k]]
          ElLower(x, y) == ElLt(h[x.atlist[1]].el, h[y.atlist[1]].el)
      IN  SortedBy(acc, ElLower) \o Accumulate(h, SubSeq(subl, 1, m), eps)

\* BaseSlab.createSublayers(eps)
createSublayers(h, s, eps) ==
    LET al == SortedByZ(h, s.atlist)
        sublists == AllSublists(h, al, s.elements, 1, eps)
        subl == [k \in DOMAIN sublists |->
                   [Layer(0, FALSE) EXCEPT
                      !.atlist = sublists[k],
                      !.cartbotz = <<h[sublists[k][1]].cartpos[3]>>]]
        Deeper(x, y) == RLt(y.cartbotz[1], x.cartbotz[1])
        acc == Accumulate(h, SortedBy(subl, Deeper), eps)
    IN  IF \E k \in DOMAIN sublists : sublists[k] = <<>>
        THEN Outcome(h, [s EXCEPT !.atlist = al], "IndexError", None)
        ELSE Outcome(h, [s EXCEPT !.atlist = al,
                                  !.sublayers = [i \in DOMAIN acc |->
                                                   [acc[i] EXCEPT !.num = i - 1]]],
                     "", None)

----------------------------------------------------------------------------
(* Symmetry tests                                                          *)

\* ucell[:2, :2]: the in-plane cell, columns a and b
ab(s) == <<<<s.ucell[1][1], s.ucell[1][2]>>, <<s.ucell[2][1], s.ucell[2][2]>>>>
\* column j of a matrix: row j of its transpose (abt[j], uct[j])
Column(m, j) == [i \in DOMAIN m |-> m[i][j]]
Dot(m, v) == IF Len(v) = 2 THEN Dot2(m, v) ELSE Dot3(m, v)

\* a SymPlane: a point pos on the plane, its direction dir (Cartesian) and
\* par, the direction in units of a and b
SymPlane(pos, dir, par) == [pos |-> pos, dir |-> dir, par |-> par]

\* rotation_matrix_order(order): the rotation by 2 pi / order
rotation_matrix_order(order) ==
    CASE order = 1 -> QMat(<<<<1, 0>>, <<0, 1>>>>)
      [] order = 2 -> QMat(<<<<-1, 0>>, <<0, -1>>>>)
      [] order = 4 -> QMat(<<<<0, -1>>, <<1, 0>>>>)

\* inv(rotm) . [[1, 0], [0, -1]] . rotm, with rotm the rotation that takes
\* symplane.dir onto x: the reflection across the direction dir
rotmirm(symplane) ==
    LET dx == symplane.dir[1]
        dy == symplane.dir[2]
        n == RInv(Norm2(symplane.dir))
        c2 == RMul(RSub(RMul(dx, dx), RMul(dy, dy)), n)
        s2 == RMul(RMul(Q(2), RMul(dx, dy)), n)
    IN  <<<<c2, s2>>, <<s2, RNeg(c2)>>>>

\* the glide vector (par[0]*abt[0] + par[1]*abt[1]) / 2
glidevec(s, symplane) ==
    VScale(<<1, 2>>, VAdd(VScale(symplane.par[1], Column(ab(s), 1)),
                          VScale(symplane.par[2], Column(ab(s), 2))))

\* abs(x) < eps / np.linalg.norm(v), compared squared
WithinRel(x, eps, v) ==
    /\ RLt(Zero, eps)
    /\ RLt(RMul(RMul(x, x), Norm2(v)), RMul(eps, eps))

\* the extended comparison list of one point, fractional p and Cartesian c:
\* its translates by the cell vectors uct of the edges it is near
addlist(p, c, uct, eps) ==
    LET Edge(j) ==
            (IF WithinRel(p[j], eps, uct[j])
             THEN <<VAdd(c, uct[j])>> ELSE <<>>)
            \o (IF WithinRel(RSub(p[j], One), eps, uct[j])
                THEN <<VSub(c, uct[j])>> ELSE <<>>)
        al == IF Len(p) = 2 THEN Edge(1) \o Edge(2)
              ELSE Edge(1) \o Edge(2) \o Edge(3)
    IN  IF Len(al) = 2
        THEN al \o <<VSub(VAdd(al[1], al[2]), c)>>
        ELSE IF Len(p) = 3 /\ Len(al) = 3
        THEN al \o <<VSub(VAdd(al[1], al[2]), c), VSub(VAdd(al[1], al[3]), c),
                     VSub(VAdd(al[2], al[3]), c),
                     VSub(VAdd(VAdd(al[1], al[2]), al[3]), VScale(Q(2), c))>>
        ELSE al

\* oricm after the concatenation of every point's extended list
Extended(oripm, oricm, uct, eps) ==
    Range(oricm) \cup
    UNION {Range(addlist(oripm[k], oricm[k], uct, eps)) : k \in DOMAIN oricm}

\* cdist and the test min(sublist) > eps: some point of tmpcoords is farther
\* than eps from every point of oricm
AnyUnmatched(tmpcoords, oricm, eps) ==
    \E t \in Range(tmpcoords) : \A o \in oricm :
        RLt(eps, Zero) \/ RLt(RMul(eps, eps), Norm2(VSub(t, o)))

\* the pass of the loop without the translation back from the pivot
SublayerMapsOnto_NoShiftBack(h, s, atlist, m, shiftv, glidev, eps) ==
    LET abi == Inv2(ab(s))
        abt == <<Column(ab(s), 1), Column(ab(s), 2)>>
        coordlist == [k \in DOMAIN atlist |->
                        <<h[atlist[k]].cartpos[1], h[atlist[k]].cartpos[2]>>]
        oripm == [k \in DOMAIN coordlist |-> VMod1(Dot2(abi, coordlist[k]))]
        oricm == [k \in DOMAIN coordlist |-> Dot2(ab(s), oripm[k])]
        Moved(c) == VAdd(Dot2(m, VSub(c, shiftv)), glidev)
        tmpcoords == [k \in DOMAIN oricm |->
                        Dot2(ab(s), VMod1(Dot2(abi, Moved(oricm[k]))))]
    IN  ~AnyUnmatched(tmpcoords, Extended(oripm, oricm, abt, eps), eps)

\* one pass of the loop over the sublayers of isMirrorSymmetric and of
\* isRotationSymmetric (glidev is zero there): FALSE when it returns False
SublayerMapsOnto(h, s, atlist, m, shiftv, glidev, eps) ==
    LET abi == Inv2(ab(s))
        abt == <<Column(ab(s), 1), Column(ab(s), 2)>>
        coordlist == [k \in DOMAIN atlist |->
                        <<h[atlist[k]].cartpos[1], h[atlist[k]].cartpos[2]>>]
        oripm == [k \in DOMAIN coordlist |-> VMod1(Dot2(abi, coordlist[k]))]
        oricm == [k \in DOMAIN coordlist |-> Dot2(ab(s), oripm[k])]
        Moved(c) == VAdd(VAdd(Dot2(m, VSub(c, shiftv)), shiftv), glidev)
        tmpcoords == [k \in DOMAIN oricm |->
                        Dot2(ab(s), VMod1(Dot2(abi, Moved(oricm[k]))))]
    IN  ~AnyUnmatched(tmpcoords, Extended(oripm, oricm, abt, eps), eps)

\* one loop pass over all the atoms of the slab instead of one per sublayer
SublayerAtlists_Aggregate(s) ==
    IF s.sublayers = <<>> THEN <<>> ELSE <<s.atlist>>

\* the atom lists the symmetry tests loop over
SublayerAtlists(s) == [i \in DOMAIN s.sublayers |-> s.sublayers[i].atlist]

\* BaseSlab.isMirrorSymmetric(symplane, eps, glide)
isMirrorSymmetric(h, s, symplane, eps, glide) ==
    LET glidev == IF glide THEN glidevec(s, symplane) ELSE <<Zero, Zero>>
        lists == SublayerAtlists(s)
    IN  IF lists # <<>> /\ Det2(ab(s)) = Zero
        THEN Outcome(h, s, "LinAlgError", None)
        ELSE Outcome(h, s, "",
                     <<\A i \in DOMAIN lists :
                          SublayerMapsOnto(h, s, lists[i], rotmirm(symplane),
                                           symplane.pos, glidev, eps)>>)

\* the test with the atom list left in reverse order
isRotationSymmetric_Reordering(h, s, axis, order, eps) ==
    LET lists == SublayerAtlists(s)
    IN  IF lists # <<>> /\ Det2(ab(s)) = Zero
        THEN Outcome(h, s, "LinAlgError", None)
        ELSE Outcome(h, [s EXCEPT !.atlist = Reverse(@)], "",
                     <<\A i \in DOMAIN lists :
                          SublayerMapsOnto(h, s, lists[i],
                                           rotation_matrix_order(order),
                                           axis, <<Zero, Zero>>, eps)>>)
\* BaseSlab.isRotationSymmetric(axis, order, eps)
isRotationSymmetric(h, s, axis, order, eps) ==
    LET lists == SublayerAtlists(s)
    IN  IF lists # <<>> /\ Det2(ab(s)) = Zero
        THEN Outcome(h, s, "LinAlgError", None)
        ELSE Outcome(h, s, "",
                     <<\A i \in DOMAIN lists :
                          SublayerMapsOnto(h, s, lists[i],
                                           rotation_matrix_order(order),
                                           axis, <<Zero, Zero>>, eps)>>)

\* min and max of a non-empty set of rationals
RMin(S) == CHOOSE x \in S : \A y \in S : RLe(x, y)
RMax(S) == CHOOSE x \in S : \A y \in S : RLe(y, x)

\* BaseSlab.isTranslationSymmetric(tv, eps, z_periodic, z_range)
isTranslationSymmetric(h, s, tv, eps, z_periodic, z_range) ==
    LET tv3 == IF Len(tv) = 2 THEN tv \o <<Zero>> ELSE tv
        uc == [i \in 1..3 |-> <<s.ucell[i][1], s.ucell[i][2], RNeg(s.ucell[i][3])>>]
        uci == Inv3(uc)
        uct == [j \in 1..3 |-> Column(uc, j)]
        shiftv == <<tv3[1], tv3[2], RNeg(tv3[3])>>
        coordlist == [k \in DOMAIN s.atlist |->
                        <<h[s.atlist[k]].cartpos[1], h[s.atlist[k]].cartpos[2],
                          RNeg(h[s.atlist[k]].cartpos[3])>>]
        oripm == [k \in DOMAIN coordlist |-> VMod1(Dot3(uci, coordlist[k]))]
        oricm == [k \in DOMAIN coordlist |-> Dot3(uc, oripm[k])]
        zs == IF z_range = None THEN {oricm[k][3] : k \in DOMAIN oricm}
              ELSE {RNeg(z_range[1][1]), RNeg(z_range[1][2])}
        min_z == RSub(RMin(zs), eps)
        max_z == RAdd(RMax(zs), eps)
        InRange(c) == z_periodic \/ (RLe(min_z, c[3]) /\ RLe(c[3], max_z))
        shifted == [k \in DOMAIN oricm |-> VAdd(oricm[k], shiftv)]
        tmpcoords == [k \in {k \in DOMAIN shifted : InRange(shifted[k])} |->
                        Dot3(uc, VMod1(Dot3(uci, shifted[k])))]
    IN  IF a_b_out_of_plane(s) THEN Outcome(h, s, "InvalidUnitCellError", None)
        ELSE IF Det3(uc) = Zero THEN Outcome(h, s, "LinAlgError", None)
        ELSE Outcome(h, s, "",
                     <<~AnyUnmatched(tmpcoords, Extended(oripm, oricm, uct, eps),
                                     eps)>>)

----------------------------------------------------------------------------
(* Supercells and matrix transformations                                   *)

\* the ids of the atoms a slab owns: its own and those of its bulk slab
OwnIds(s) ==
    Range(s.atlist) \cup
    (IF s.bulkslab = None THEN {} ELSE Range(s.bulkslab[1].atlist))

\* the copy of a slab whose atoms are the atoms id + off
Relocated(ls, off) ==
    Tuple([i \in DOMAIN ls |->
            [ls[i] EXCEPT !.atlist = Tuple([k \in DOMAIN @ |-> @[k] + off])]])
CopySlab(s, off) ==
    [s EXCEPT !.atlist = Tuple([k \in DOMAIN @ |-> @[k] + off]),
              !.layers = Relocated(@, off),
              !.sublayers = Relocated(@, off)]

\* a copy that shares the atoms of the slab
deepcopy_Shallow(h, s) ==
    Outcome([id \in 1..Cardinality(OwnIds(s)) |-> h[id]], s, "", <<s>>)

\* copy.deepcopy(self): the slab s owns the atoms 1..m of the heap; its copy
\* owns copies of them, the atoms m+1..2m (atoms of slabs no longer
\* referenced are dropped from the heap)
deepcopy(h, s) ==
    Outcome([id \in 1..(2 * Cardinality(OwnIds(s))) |->
                IF id <= Cardinality(OwnIds(s)) THEN h[id]
                ELSE h[id - Cardinality(OwnIds(s))]],
            s, "",
            <<[CopySlab(s, Cardinality(OwnIds(s))) EXCEPT
                 !.bulkslab = IF @ = None THEN None
                              ELSE <<CopySlab(@[1], Cardinality(OwnIds(s)))>>]>>)

\* BaseSlab.sortOriginal
sortOriginal(h, s) ==
    LET Earlier(x, y) == h[x].oriN < h[y].oriN
    IN  [s EXCEPT !.atlist = SortedBy(@, Earlier)]

\* BaseSlab.sort_by_element: the atoms of each element of self.elements, in
\* the order of the list sorted by element name
RECURSIVE ByElement(_, _, _, _)
ByElement(h, esortlist, elements, k) ==
    IF k > Len(elements) THEN <<>>
    ELSE LET IsEl(id) == h[id].el = elements[k]
         IN  Filter(esortlist, IsEl) \o ByElement(h, esortlist, elements, k + 1)
sort_by_element(h, s) ==
    LET Before(x, y) == ElLt(h[x].el, h[y].el)
    IN  [s EXCEPT !.atlist = ByElement(h, SortedBy(@, Before), s.elements, 1)]

\* the renumbering loop of resetAtomOriN on the sorted slab s
Renumbered(h, s) ==
    LET Index(id) == CHOOSE i \in DOMAIN s.atlist : s.atlist[i] = id
        Match(b) == {i \in DOMAIN s.atlist : h[s.atlist[i]].oriN = h[b].oriN}
        First(S) == CHOOSE i \in S : \A j \in S : i <= j
        bulk == IF s.bulkslab = None THEN {} ELSE Range(s.bulkslab[1].atlist)
    IN  Tuple([id \in DOMAIN h |->
            IF id \in Range(s.atlist) THEN [h[id] EXCEPT !.oriN = Index(id)]
            ELSE IF id \in bulk /\ Match(id) # {}
            THEN [h[id] EXCEPT !.oriN = First(Match(id))]
            ELSE h[id]])

\* BaseSlab.resetAtomOriN
resetAtomOriN(h, s) ==
    Outcome(Renumbered(h, sort_by_element(h, sortOriginal(h, s))),
            sort_by_element(h, sortOriginal(h, s)), "", None)

\* the loop "while transformSize / transformDiag[longSide] % 1 != 0" from
\* d down: the d it stops at, or None when it never stops. A division by
\* d = 0 gives inf, and inf % 1 is nan, which is != 0.
RECURSIVE LongSideDiag(_, _)
LongSideDiag(transformSize, d) ==
    IF d # 0 /\ transformSize % Abs(d) = 0 THEN <<d>>
    ELSE IF d < -transformSize THEN None
    ELSE LongSideDiag(transformSize, d - 1)

Max(S) == CHOOSE x \in S : \A y \in S : y <= x

\* transformDiag for the integer matrix t with abs(det) = transformSize > 1
transformDiag(t, transformSize) ==
    LET longSide == IF Max({t[1][1], t[2][1]}) > Max({t[1][2], t[2][2]})
                    THEN 1 ELSE 2
        long == LongSideDiag(transformSize,
                             Max({t[1][1], t[1][2], t[2][1], t[2][2]}))
    IN  IF long = None THEN None
        ELSE IF longSide = 1
        THEN <<<<long[1], transformSize \div long[1]>>>>
        ELSE <<<<transformSize \div long[1], long[1]>>>>

\* Atom.duplicate on the k-th atom of the list cpatlist, moved by i and j
\* along a and b: the new atom
Duplicate(h, at, i, j, oriN) ==
    [h[at] EXCEPT !.pos = <<RAdd(@[1], Q(i)), RAdd(@[2], Q(j)), @[3]>>,
                  !.oriN = oriN]

\* the atoms the loops over cpatlist, range(transformDiag[0]) and
\* range(transformDiag[1]) add, in order: per atom, extra = d0*d1 - 1 of them
Duplicates(h, cpatlist, d1, extra) ==
    [x \in 1..(Len(cpatlist) * extra) |->
        Duplicate(h, cpatlist[((x - 1) \div extra) + 1],
                  (((x - 1) % extra) + 1) \div d1,
                  (((x - 1) % extra) + 1) % d1,
                  Len(cpatlist) + x)]

\* the slab ts and the heap after the duplication loops
Multiplied(h, ts, diag) ==
    IF diag[1] < 1 \/ diag[2] < 1 THEN Outcome(h, ts, "", None)
    ELSE Outcome(h \o Duplicates(h, ts.atlist, diag[2], diag[1] * diag[2] - 1),
                 [ts EXCEPT !.atlist =
                    @ \o [x \in 1..(Len(@) * (diag[1] * diag[2] - 1)) |->
                            Len(h) + x]],
                 "", None)

\* the 3x3 matrix tm with tm[:2, :2] = transform
tm(transform) ==
    <<<<transform[1][1], transform[1][2], Zero>>,
      <<transform[2][1], transform[2][2], Zero>>,
      <<Zero, Zero, One>>>>

\* makeSupercell from ts.resetAtomOriN() on, with o the copy ts and its heap
Recelled(o, transform) ==
    Outcome(o.atoms,
            [o.slab EXCEPT !.ucell =
                Transpose3(MatMul3(tm(transform), Transpose3(@)))],
            "", None)
Refractioned(o) == getFractionalCoordinates(o.atoms, o.slab)
Recartesianed(o) ==
    IF o.exc # "" THEN o ELSE getCartesianCoordinates(o.atoms, o.slab, TRUE)
Renumber(o) == resetAtomOriN(o.atoms, o.slab)
Origined(o) == getCartesianCoordinates(o.atoms, o.slab, TRUE)
Supercelled(o, transform) ==
    Recartesianed(Refractioned(Recelled(Origined(Renumber(o)), transform)))

\* the outcome of makeSupercell on the slab s given that of the work on
\* its copy: the heap, the slab s itself, and the copy as the return value
Returned(o, s, h) ==
    IF o.exc # "" THEN Outcome(h, s, o.exc, None)
    ELSE Outcome(o.atoms, s, "", <<o.slab>>)

IntMat(transform) ==
    [i \in 1..2 |-> [j \in 1..2 |-> transform[i][j][1]]]
AbsDet(t) == Abs(t[1][1] * t[2][2] - t[1][2] * t[2][1])

\* makeSupercell after the copy cp was made
OnCopy(cp, t, transform) ==
    IF AbsDet(t) > 1
    THEN IF transformDiag(t, AbsDet(t)) = None
         THEN Outcome(cp.atoms, cp.slab, "NoReturn", None)
         ELSE Supercelled(Multiplied(cp.atoms, cp.ret[1],
                                     transformDiag(t, AbsDet(t))[1]),
                          transform)
    ELSE Supercelled(Outcome(cp.atoms, cp.ret[1], "", None), transform)

\* BaseSlab.makeSupercell(transform)
makeSupercell(h, s, transform) ==
    IF \E i \in 1..2, j \in 1..2 : ~RIsInt(transform[i][j])
    THEN Outcome(h, s, "ValueError", None)
    ELSE Returned(OnCopy(deepcopy(h, s), IntMat(transform), transform), s, h)

\* whether a matrix has shape (3, 3)
Is3x3(m) == Len(m) = 3 /\ \A i \in 1..3 : Len(m[i]) = 3
changes_z(O) == O[3] # <<Zero, Zero, One>>

\* self.ucell[abs(self.ucell) < 1e-5] = 0.
ChopBelow == <<1, 100000>>
Chopped(ucell) ==
    Tuple([i \in 1..3 |-> Tuple([j \in 1..3 |->
        IF RLt(RAbs(ucell[i][j]), ChopBelow) THEN Zero ELSE ucell[i][j]])])
\* apply_matrix_transformation up to getCartesianCoordinates
Transformed(h, s, O, updateOrigin) ==
    getCartesianCoordinates(h, [s EXCEPT !.ucell = Chopped(MatMul3(O, @))],
                            updateOrigin)
\* the clearing of layers and sublayers
Cleared(o, O) ==
    IF changes_z(O)
    THEN [o EXCEPT !.slab.layers = <<>>, !.slab.sublayers = <<>>]
    ELSE o
\* the outcome for the slab given that of the transformation of its bulk
WithBulk(o, b) ==
    Outcome(b.atoms, [o.slab EXCEPT !.bulkslab = <<b.slab>>], "", None)
\* the keeping without the invalidation of the bulk slab
Propagated_KeepBulk(o, O) ==
    IF o.slab.is_bulk \/ o.slab.bulkslab = None THEN o
    ELSE WithBulk(o, Transformed(o.atoms, o.slab.bulkslab[1], O, FALSE))
\* the invalidation of the bulk slab, or the same transformation of it
Propagated(o, O) ==
    IF o.slab.is_bulk THEN o
    ELSE IF changes_z(O) THEN [o EXCEPT !.slab.bulkslab = None]
    ELSE IF o.slab.bulkslab # None
    THEN WithBulk(o, Transformed(o.atoms, o.slab.bulkslab[1], O, FALSE))
    ELSE o

\* the transformation of the unit cell before the test of the matrix
apply_matrix_transformation_Unchecked(h, s, trafo_matrix) ==
    IF ~Is3x3(trafo_matrix) THEN Outcome(h, s, "ValueError", None)
    ELSE IF Det3(trafo_matrix) = Zero
    THEN Outcome(h, [s EXCEPT !.ucell = MatMul3(trafo_matrix, @)],
                 "LinAlgError", None)
    ELSE IF Inv3(trafo_matrix) # Transpose3(trafo_matrix)
    THEN Outcome(h, [s EXCEPT !.ucell = MatMul3(trafo_matrix, @)],
                 "ValueError", None)
    ELSE Propagated(Cleared(Transformed(h, s, trafo_matrix,
                                        changes_z(trafo_matrix)),
                            trafo_matrix), trafo_matrix)

\* BaseSlab.apply_matrix_transformation(trafo_matrix); np.linalg.inv raises
\* LinAlgError, a ValueError, on a singular matrix
apply_matrix_transformation(h, s, trafo_matrix) ==
    IF ~Is3x3(trafo_matrix) THEN Outcome(h, s, "ValueError", None)
    ELSE IF Det3(trafo_matrix) = Zero THEN Outcome(h, s, "LinAlgError", None)
    ELSE IF Inv3(trafo_matrix) # Transpose3(trafo_matrix)
    THEN Outcome(h, s, "ValueError", None)
    ELSE Propagated(Cleared(Transformed(h, s, trafo_matrix,
                                        changes_z(trafo_matrix)),
                            trafo_matrix), trafo_matrix)

\* whether a scaling factor is a number (isinstance(s, Real)); an argument
\* that is no number is modelled as None
IsReal(x) == x # None
\* the threshold 1e-5 below which a factor counts as zero
ScalingMin == <<1, 100000>>
\* abs(s) < 1e-5
TooSmall(x) == RLt(RAbs(x), ScalingMin)

\* self.ucell.dot(np.diag(scaling)): column j times scaling[j]
DotDiag(ucell, scaling) ==
    Tuple([i \in 1..3 |-> Tuple([j \in 1..3 |-> RMul(ucell[i][j], scaling[j])])])
\* apply_scaling from the scaling of the unit cell to the coordinates
Rescaled(h, s, scaling) ==
    getCartesianCoordinates(h, [s EXCEPT !.ucell = DotDiag(@, scaling)],
                            scaling[3] # One)
\* the scaling of the slab alone
ScaledBulk_SlabOnly(o, scaling) == o
\* self.bulkslab.apply_scaling(*scaling), if there is a bulk slab (it has
\* none itself): the outcome for the slab
ScaledBulk(o, scaling) ==
    IF o.slab.bulkslab = None THEN o
    ELSE WithBulk(o, Rescaled(o.atoms, o.slab.bulkslab[1], scaling))
\* the three factors of a call with one or three numbers
Factors(scaling) ==
    IF Len(scaling) = 1 THEN <<scaling[1], scaling[1], scaling[1]>> ELSE scaling

\* BaseSlab.apply_scaling(*scaling); returns the scaling matrix
apply_scaling(h, s, scaling) ==
    IF Len(scaling) \notin {1, 3} THEN Outcome(h, s, "TypeError", None)
    ELSE IF \E i \in DOMAIN scaling : ~IsReal(scaling[i])
    THEN Outcome(h, s, "TypeError", None)
    ELSE IF \E i \in 1..3 : TooSmall(Factors(scaling)[i])
    THEN Outcome(h, s, "ValueError", None)
    ELSE [ScaledBulk(Rescaled(h, s, Factors(scaling)), Factors(scaling))
            EXCEPT !.ret = <<DotDiag(Identity3, Factors(scaling))>>]

\* the next call of a method body on the outcome o of the calls before it:
\* an exception raised earlier ends the body
Then(o, next) == IF o.exc # "" THEN o ELSE next

\* BaseSlab.collapseCartesianCoordinates(updateOrigin)
Collapsed(o) == collapseFractionalCoordinates(o.atoms, o.slab)
Cartesianed(o, updateOrigin) ==
    Then(o, getCartesianCoordinates(o.atoms, o.slab, updateOrigin))
Fractioned(o) == Then(o, getFractionalCoordinates(o.atoms, o.slab))
collapseCartesianCoordinates(h, s, updateOrigin) ==
    Cartesianed(Then(getFractionalCoordinates(h, s),
                     Collapsed(getFractionalCoordinates(h, s))),
                updateOrigin)

\* m3: the identity with m in its upper left corner
m3(m) ==
    <<<<m[1][1], m[1][2], Zero>>, <<m[2][1], m[2][2], Zero>>,
      <<Zero, Zero, One>>>>

\* rotateUnitCell after self.getCartesianCoordinates()
Rotated(o, order, append_ucell_mod) ==
    Fractioned(
        [o EXCEPT !.slab.ucell = MatMul3(m3(rotation_matrix_order(order)), @),
                  !.slab.ucell_mod =
                      IF append_ucell_mod
                      THEN Append(@, <<"lmul", m3(rotation_matrix_order(order))>>)
                      ELSE @])
\* BaseSlab.rotateUnitCell(order, append_ucell_mod)
rotateUnitCell(h, s, order, append_ucell_mod) ==
    Rotated(getCartesianCoordinates(h, s, FALSE), order, append_ucell_mod)

\* at.cartpos[0:2] -= op[1] for the atoms of the slab
ShiftedBack(o, shift) ==
    [o EXCEPT !.atoms =
        Tuple([id \in DOMAIN @ |->
                 IF id \in Range(o.slab.atlist)
                 THEN [@[id] EXCEPT !.cartpos =
                          <<RSub(@[1], shift[1]), RSub(@[2], shift[2]), @[3]>>]
                 ELSE @[id]])]
\* the undoing of one step op of the stack, on the outcome o so far
Undone(o, op) ==
    IF o.exc # "" THEN o
    ELSE IF op[1] = "add"
    THEN collapseCartesianCoordinates(ShiftedBack(o, op[2]).atoms, o.slab, FALSE)
    ELSE IF op[1] = "lmul"
    THEN IF Det3(op[2]) = Zero THEN [o EXCEPT !.exc = "LinAlgError"]
         ELSE collapseCartesianCoordinates(
                  o.atoms,
                  [o.slab EXCEPT !.ucell = MatMul3(Inv3(op[2]), @)], FALSE)
    ELSE IF op[1] = "rmul"
    THEN IF Det3(op[2]) = Zero THEN [o EXCEPT !.exc = "LinAlgError"]
         ELSE collapseCartesianCoordinates(
                  o.atoms,
                  [o.slab EXCEPT !.ucell = MatMul3(@, Inv3(op[2]))], FALSE)
    ELSE o
\* the loop over reversed(oplist) from its k-th entry down
RECURSIVE UndoneFrom(_, _, _)
UndoneFrom(o, oplist, k) ==
    IF k = 0 THEN o ELSE UndoneFrom(Undone(o, oplist[k]), oplist, k - 1)
\* the truncation of the stack after the loop
Truncated(o, n) ==
    IF o.exc # "" THEN o
    ELSE [o EXCEPT !.slab.ucell_mod = SubSeq(@, 1, IF n < Len(@) THEN n ELSE Len(@))]
\* the unit cell is left as it is, the stack is truncated
revertUnitCell_KeepCell(h, s, restoreTo) ==
    IF Len(s.ucell_mod) > 0
    THEN Truncated(getCartesianCoordinates(h, s, FALSE), Len(restoreTo))
    ELSE Outcome(h, s, "", None)
\* BaseSlab.revertUnitCell(restoreTo)
revertUnitCell(h, s, restoreTo) ==
    IF Len(s.ucell_mod) > 0
    THEN Truncated(
             UndoneFrom(getCartesianCoordinates(h, s, FALSE),
                        SubSeq(s.ucell_mod, Len(restoreTo) + 1, Len(s.ucell_mod)),
                        IF Len(restoreTo) < Len(s.ucell_mod)
                        THEN Len(s.ucell_mod) - Len(restoreTo) ELSE 0),
             Len(restoreTo))
    ELSE Outcome(h, s, "", None)

----------------------------------------------------------------------------
(* Moving the atoms: BaseSlab.mirror and BaseSlab.rotateAtoms              *)

\* the in-plane Cartesian position of every atom of the slab replaced by
\* its image under the map given as the list of images, in atlist order
WithInPlane(h, s, images) ==
    Tuple([id \in DOMAIN h |->
             IF id \in Range(s.atlist)
             THEN [h[id] EXCEPT !.cartpos =
                      <<images[CHOOSE k \in DOMAIN s.atlist : s.atlist[k] = id][1],
                        images[CHOOSE k \in DOMAIN s.atlist : s.atlist[k] = id][2],
                        @[3]>>]
             ELSE h[id]])

\* the mirror across the normal of the plane instead of the plane
mirror_AcrossNormal(h, s, symplane, glide) ==
    Outcome(
        WithInPlane(h, s,
            [k \in DOMAIN s.atlist |->
               VAdd(VAdd(VScale(Q(-1),
                                Dot2(rotmirm(symplane),
                                     VSub(<<h[s.atlist[k]].cartpos[1],
                                            h[s.atlist[k]].cartpos[2]>>,
                                          symplane.pos))),
                         symplane.pos),
                    IF glide THEN glidevec(s, symplane) ELSE <<Zero, Zero>>)]),
        s, "", None)
\* BaseSlab.mirror(symplane, glide): only cartpos is changed
mirror(h, s, symplane, glide) ==
    Outcome(
        WithInPlane(h, s,
            [k \in DOMAIN s.atlist |->
               VAdd(VAdd(Dot2(rotmirm(symplane),
                              VSub(<<h[s.atlist[k]].cartpos[1],
                                     h[s.atlist[k]].cartpos[2]>>,
                                   symplane.pos)),
                         symplane.pos),
                    IF glide THEN glidevec(s, symplane) ELSE <<Zero, Zero>>)]),
        s, "", None)

\* rotateAtoms after self.getCartesianCoordinates()
AtomsRotated(o, axis, order) ==
    Fractioned(
        [o EXCEPT !.atoms =
            WithInPlane(o.atoms, o.slab,
                [k \in DOMAIN o.slab.atlist |->
                   VAdd(Dot2(rotation_matrix_order(order),
                             VSub(<<o.atoms[o.slab.atlist[k]].cartpos[1],
                                    o.atoms[o.slab.atlist[k]].cartpos[2]>>,
                                  axis)),
                        axis)])])
\* BaseSlab.rotateAtoms(axis, order)
rotateAtoms(h, s, axis, order) ==
    AtomsRotated(getCartesianCoordinates(h, s, FALSE), axis, order)

----------------------------------------------------------------------------
(* The minimal unit cell                                                   *)

\* abst = self.ucell[:2, :2].T: the rows a and b
CellRows(s) ==
    <<<<s.ucell[1][1], s.ucell[2][1]>>, <<s.ucell[1][2], s.ucell[2][2]>>>>

\* BaseSlab.projectCToZ
Reprojected(o) ==
    collapseCartesianCoordinates(
        o.atoms,
        [o.slab EXCEPT !.ucell[1][3] = Zero, !.ucell[2][3] = Zero], FALSE)
projectCToZ(h, s) ==
    IF s.ucell[1][3] # Zero \/ s.ucell[2][3] # Zero
    THEN Reprojected(getCartesianCoordinates(h, s, FALSE))
    ELSE Outcome(h, s, "", None)

\* BaseSlab.sort_by_z
sort_by_z(h, s) == [s EXCEPT !.atlist = SortedByZ(h, @)]

\* BaseSlab.getLowOccLayer: the first of the sublayers with the fewest atoms
getLowOccLayer(s) ==
    s.sublayers[CHOOSE i \in DOMAIN s.sublayers :
        /\ \A j \in DOMAIN s.sublayers :
               Len(s.sublayers[j].atlist) >= Len(s.sublayers[i].atlist)
        /\ \A j \in 1..(i - 1) :
               Len(s.sublayers[j].atlist) > Len(s.sublayers[i].atlist)]

\* itertools.combinations(range(n), 2), in order
RECURSIVE Combinations2(_, _, _)
Combinations2(n, i, j) ==
    IF i >= n THEN <<>>
    ELSE IF j > n THEN Combinations2(n, i + 1, i + 2)
    ELSE <<<<i, j>>>> \o Combinations2(n, i, j + 1)

\* vlist: the differences p1 - p2 of the in-plane positions of the atoms
vlist(h, atlist) ==
    LET P(k) == <<h[atlist[k]].cartpos[1], h[atlist[k]].cartpos[2]>>
        cs == Combinations2(Len(atlist), 1, 2)
    IN  Tuple([k \in DOMAIN cs |-> VSub(P(cs[k][1]), P(cs[k][2]))])

\* tvecs: the vectors of vlist the test slab is translation symmetric for
tvecs(h, ts, vl, eps) ==
    SelectIdx(vl, {k \in DOMAIN vl :
                    isTranslationSymmetric(h, ts, vl[k], eps, TRUE, None).ret
                        = <<TRUE>>}, 1)

\* abs(np.linalg.det(cell)) of a cell given by its two rows
Area(cell) == RAbs(Det2(cell))

\* the test of a candidate cell without the lower limit of its area
Improves_NoFloor(tcell, mincell_area, smallest_area, eps) ==
    RLt(Area(tcell), RSub(mincell_area, RMul(eps, eps)))
\* the test of a candidate cell without the test that it is smaller
Improves_NoCeiling(tcell, mincell_area, smallest_area, eps) ==
    RLe(RSub(smallest_area, RMul(eps, eps)), Area(tcell))
\* tcell_area >= smallest_area - eps**2 and tcell_area < mincell_area - eps**2
Improves(tcell, mincell_area, smallest_area, eps) ==
    /\ RLe(RSub(smallest_area, RMul(eps, eps)), Area(tcell))
    /\ RLt(Area(tcell), RSub(mincell_area, RMul(eps, eps)))

\* the loop over tvecs that ends with the first vector it takes
Reduced_FirstOnly(st, tv, k, smallest_area, eps) ==
    IF \A j \in k..Len(tv) : \A i \in 1..2 :
           ~Improves(<<st.mincell[i], tv[j]>>, Area(st.mincell),
                     smallest_area, eps)
    THEN st
    ELSE LET j == CHOOSE j \in k..Len(tv) :
                     /\ \E i \in 1..2 :
                            Improves(<<st.mincell[i], tv[j]>>,
                                     Area(st.mincell), smallest_area, eps)
                     /\ \A l \in k..(j - 1) : \A i \in 1..2 :
                            ~Improves(<<st.mincell[i], tv[l]>>,
                                      Area(st.mincell), smallest_area, eps)
         IN  [mincell |->
                 <<st.mincell[IF Improves(<<st.mincell[1], tv[j]>>,
                                          Area(st.mincell), smallest_area,
                                          eps) THEN 1 ELSE 2], tv[j]>>,
              smaller |-> TRUE]

\* the loop over tvecs from its k-th vector on; st is [mincell, smaller]
RECURSIVE Reduced(_, _, _, _, _)
Reduced(st, tv, k, smallest_area, eps) ==
    IF k > Len(tv) THEN st
    ELSE IF Improves(<<st.mincell[1], tv[k]>>, Area(st.mincell),
                     smallest_area, eps)
    THEN Reduced([mincell |-> <<st.mincell[1], tv[k]>>, smaller |-> TRUE],
                 tv, k + 1, smallest_area, eps)
    ELSE IF Improves(<<st.mincell[2], tv[k]>>, Area(st.mincell),
                     smallest_area, eps)
    THEN Reduced([mincell |-> <<st.mincell[2], tv[k]>>, smaller |-> TRUE],
                 tv, k + 1, smallest_area, eps)
    ELSE Reduced(st, tv, k + 1, smallest_area, eps)

\* round(x) for a rational x
RRound(x) == (2 * x[1] + x[2]) \div (2 * x[2])
\* leedbase.reduceUnitCell: the reduction of a cell to its shortest vectors
\* at constant area (Lagrange-Gauss reduction)
RECURSIVE reduceUnitCell(_)
reduceUnitCell(cell) ==
    IF RLt(Norm2(cell[2]), Norm2(cell[1]))
    THEN reduceUnitCell(<<cell[2], cell[1]>>)
    ELSE IF Norm2(cell[1]) = Zero THEN cell
    ELSE IF RRound(RMul(RAdd(RMul(cell[1][1], cell[2][1]),
                             RMul(cell[1][2], cell[2][2])),
                        RInv(Norm2(cell[1])))) = 0
    THEN cell
    ELSE reduceUnitCell(
             <<cell[1],
               VSub(cell[2],
                    VScale(Q(RRound(RMul(RAdd(RMul(cell[1][1], cell[2][1]),
                                              RMul(cell[1][2], cell[2][2])),
                                         RInv(Norm2(cell[1]))))),
                           cell[1]))>>)

\* the cosmetic corrections of the reduced cell, one by one
OffDiagonal(m, eps) == RLt(RAbs(m[1][1]), eps) /\ RLt(RAbs(m[2][2]), eps)
Diagonal(m, eps) == RLt(RAbs(m[2][1]), eps) /\ RLt(RAbs(m[1][2]), eps)
Swapped(m, eps) == IF OffDiagonal(m, eps) THEN <<m[2], m[1]>> ELSE m
Positive(m, eps) ==
    IF Diagonal(m, eps)
    THEN <<<<RAbs(m[1][1]), RAbs(m[1][2])>>, <<RAbs(m[2][1]), RAbs(m[2][2])>>>>
    ELSE m
\* np.linalg.norm(u) > np.linalg.norm(v) + eps, decided on the squares
LongerBy(u, v, eps) ==
    /\ RLt(Zero, RSub(RSub(Norm2(u), Norm2(v)), RMul(eps, eps)))
    /\ RLt(RMul(RMul(Q(4), RMul(eps, eps)), Norm2(v)),
           RMul(RSub(RSub(Norm2(u), Norm2(v)), RMul(eps, eps)),
                RSub(RSub(Norm2(u), Norm2(v)), RMul(eps, eps))))
ShortFirst(m, eps) ==
    IF LongerBy(m[1], m[2], eps) /\ ~Diagonal(m, eps)
    THEN <<m[2], <<RNeg(m[1][1]), RNeg(m[1][2])>>>>
    ELSE m
\* angle(mincell[0], mincell[1]) < 0: b is clockwise of a
RightHanded(m) ==
    IF RLt(Det2(m), Zero)
    THEN <<m[1], <<RNeg(m[2][1]), RNeg(m[2][2])>>>>
    ELSE m
Cosmetic(m, eps) ==
    RightHanded(ShortFirst(Positive(Swapped(m, eps), eps), eps))

\* getMinUnitCell from the loop over tvecs on
Minimized(h, s, abst, tv, n_atoms, eps) ==
    IF ~Reduced([mincell |-> abst, smaller |-> FALSE], tv, 1,
                RMul(Area(abst), <<1, n_atoms>>), eps).smaller
    THEN Outcome(h, s, "", <<FALSE, abst>>)
    ELSE Outcome(h, s, "",
                 <<TRUE,
                   Cosmetic(reduceUnitCell(
                       Reduced([mincell |-> abst, smaller |-> FALSE], tv, 1,
                               RMul(Area(abst), <<1, n_atoms>>), eps).mincell),
                       eps)>>)
\* getMinUnitCell from the candidate vectors on (ts is the test slab, th
\* its heap)
WithVectors(h, s, abst, th, ts, lowocclayer, eps) ==
    IF a_b_out_of_plane(ts) THEN Outcome(h, s, "InvalidUnitCellError", None)
    ELSE IF Det3(ts.ucell) = Zero THEN Outcome(h, s, "LinAlgError", None)
    ELSE IF tvecs(th, ts, vlist(th, lowocclayer.atlist), eps) = <<>>
    THEN Outcome(h, s, "", <<FALSE, abst>>)
    ELSE Minimized(h, s, abst,
                   tvecs(th, ts, vlist(th, lowocclayer.atlist), eps),
                   Len(lowocclayer.atlist), eps)
\* getMinUnitCell on the test slab o with its sublayers
OnTestSlab(h, s, abst, o, eps) ==
    IF o.exc # "" THEN Outcome(h, s, o.exc, None)
    ELSE IF Len(getLowOccLayer(o.slab).atlist) < 2
    THEN Outcome(h, s, "", <<FALSE, abst>>)
    ELSE WithVectors(h, s, abst, o.atoms, o.slab, getLowOccLayer(o.slab), eps)
\* the test slab: the copy with c projected to z, sorted, with sublayers
Sublayered(o, epsz) ==
    Then(o, createSublayers(o.atoms, sort_by_z(o.atoms, o.slab), epsz))
TestSlab(cp, epsz) == Sublayered(projectCToZ(cp.atoms, cp.ret[1]), epsz)

\* BaseSlab.getMinUnitCell(rp) with eps = rp.SYMMETRY_EPS and
\* epsz = rp.SYMMETRY_EPS_Z; returns <<can_be_reduced, mincell>>
getMinUnitCell(h, s, eps, epsz) ==
    OnTestSlab(h, s, CellRows(s), TestSlab(deepcopy(h, s), epsz), eps)

----------------------------------------------------------------------------
(* Initial slabs                                                           *)

\* bounds of the model
MaxAtoms == 2
MaxBulkLayers == 2
\* the largest absolute value of an entry of a scaled unit cell (the
\* smallest is 1)
MaxCell == 8
\* the largest number of steps on the unit-cell modification stack
MaxMods == 2
\* the largest number of atoms of a slab whose cell is minimized
MaxCellAtoms == 4
\* the largest number of atoms of a chain
MaxChain == 3

\* unit cells (columns a, b, c): square; oblique in plane with a tilted c;
\* and one whose a vector leaves the surface plane
SquareCell == QMat(<<<<4, 0, 0>>, <<0, 4, 0>>, <<0, 0, 8>>>>)
ObliqueCell == QMat(<<<<4, 2, 2>>, <<0, 4, 0>>, <<0, 0, 8>>>>)
TiltedCell == QMat(<<<<4, 0, 0>>, <<0, 4, 0>>, <<4, 0, 8>>>>)

\* fractional heights of atoms and of layer cuts
ZGrid == {<<1, 8>>, <<3, 8>>, <<7, 8>>}
CutGrid == {<<1, 4>>, <<1, 2>>, <<3, 4>>}
Elements == Range(ElNames)

\* the element names of a list of [el, pos] in order of first appearance
RECURSIVE ElementsOf(_, _)
ElementsOf(cfg, i) ==
    IF i > Len(cfg) THEN <<>>
    ELSE (IF \E j \in 1..(i - 1) : cfg[j].el = cfg[i].el THEN <<>>
          ELSE <<cfg[i].el>>) \o ElementsOf(cfg, i + 1)

\* a slab read from a structure file with unit cell ucell and the atoms cfg
\* (a list of [el, pos]), after collapseFractionalCoordinates and
\* getCartesianCoordinates
CartesianOf(o) == getCartesianCoordinates(o.atoms, o.slab, FALSE)
FreshSlab(ucell, cfg) ==
    CartesianOf(collapseFractionalCoordinates(
        [id \in 1..Len(cfg) |-> Atom(cfg[id].el, cfg[id].pos, id)],
        BaseSlab(ucell, [i \in 1..Len(cfg) |-> i], ElementsOf(cfg, 1), FALSE)))
\* the bulk slab of the slab of g0: a copy of its lowest atom low in its cell
BulkFor(g0, cfg, low) ==
    getCartesianCoordinates(
        Append(g0.atoms, Atom(cfg[low].el, cfg[low].pos, low)),
        BaseSlab(g0.slab.ucell, <<Len(cfg) + 1>>, <<cfg[low].el>>, TRUE), FALSE)
AttachBulk(g0, g1) ==
    [atoms |-> g1.atoms, slab |-> [g0.slab EXCEPT !.bulkslab = <<g1.slab>>]]
MaybeWithBulk(g0, cfg, withBulk) ==
    IF withBulk
    THEN AttachBulk(g0, BulkFor(g0, cfg, SortedByZ(g0.atoms, g0.slab.atlist)[1]))
    ELSE [atoms |-> g0.atoms, slab |-> g0.slab]
NewSlab(ucell, cfg, withBulk) ==
    MaybeWithBulk(FreshSlab(ucell, cfg), cfg, withBulk)

\* the atom lists with 1..MaxAtoms atoms at the positions sites
Configs(sites) ==
    UNION {[1..n -> [el : Elements, pos : sites]] : n \in 1..MaxAtoms}

Call(op, arg, r) == [op |-> op, arg |-> arg, exc |-> r.exc, ret |-> r.ret]

\* the initial states: the slabs NewSlab makes of the triples
\* <<ucell, cfg, withBulk>> of the set family
InitFrom(family) ==
    \E f \in family :
        \E w \in {NewSlab(f[1], f[2], f[3])} :
            /\ atoms = w.atoms
            /\ slab = w.slab
            /\ sc = None
            /\ last = [op |-> "new", arg |-> <<>>, exc |-> "", ret |-> None]
            /\ files = None
            /\ editor = None

\* atoms stacked along c at the heights of ZGrid
Stacked == {<<Zero, Zero, z>> : z \in ZGrid}

\* the atom lists of 1..most of the atoms of the list sites, in its order
PicksUpTo(sites, most) ==
    UNION {{[k \in 1..n |-> sites[f[k]]] :
              f \in {g \in [1..n -> DOMAIN sites] :
                        \A i \in 1..n : \A j \in 1..n : i < j => g[i] < g[j]}} :
           n \in 1..most}
Picks(sites) == PicksUpTo(sites, MaxAtoms)

\* atoms of a surface: at a corner of the cell, on the a edge at 1/4 and 3/4,
\* and at the centre, all at one height, and one atom higher up
InPlane ==
    <<[el |-> "Ag", pos |-> <<Zero, Zero, <<1, 8>>>>],
      [el |-> "Ag", pos |-> <<<<1, 4>>, Zero, <<1, 8>>>>],
      [el |-> "O", pos |-> <<<<3, 4>>, Zero, <<1, 8>>>>],
      [el |-> "Ag", pos |-> <<<<1, 2>>, <<1, 2>>, <<1, 8>>>>],
      [el |-> "Ag", pos |-> <<<<3, 4>>, Zero, <<3, 8>>>>]>>

----------------------------------------------------------------------------
(* Actions                                                                 *)

\* the list of the cutoffs of a set, ascending
AscendingCuts(cuts) ==
    [i \in 1..Cardinality(cuts) |->
        CHOOSE c \in cuts : Cardinality({x \in cuts : RLt(x, c)}) = i - 1]

\* the atoms, the slab and the record of a call that ended as r
Returns(op, arg, r) ==
    /\ atoms' = r.atoms
    /\ slab' = r.slab
    /\ last' = Call(op, arg, r)
    /\ UNCHANGED <<files, editor>>

\* slab.createLayers(rparams) with LAYER_CUTS the ascending list of one of
\* the sets cutsets and N_BULK_LAYERS one of bulks
CreateLayersWith(cutsets, bulks) ==
    \E cuts \in cutsets, N_BULK_LAYERS \in bulks :
      \E LAYER_CUTS \in {AscendingCuts(cuts)} :
        \E r \in {createLayers(atoms, slab, LAYER_CUTS, N_BULK_LAYERS)} :
            /\ Returns("createLayers", <<LAYER_CUTS, N_BULK_LAYERS>>, r)
            /\ UNCHANGED sc

CreateLayers == CreateLayersWith(SUBSET CutGrid, 0..MaxBulkLayers)
\* the layering with one cut at c = 1/4 and one bulk layer
CreateLayersBelowSurface == CreateLayersWith({{<<1, 4>>}}, {1})

CreateSublayers ==
    \E eps \in {Q(1), Q(3)} :
        \E r \in {createSublayers(atoms, slab, eps)} :
            /\ Returns("createSublayers", <<eps>>, r)
            /\ UNCHANGED sc

\* the tolerances and the operations the tests are called with: mirror
\* planes along a, b and a+b and a glide plane along a; rotations about the
\* origin and about a point off the lattice; the zero translation and a/2
EpsGrid == {<<1, 4>>, <<3, 4>>}
Plane(pos, par) == SymPlane(pos, Dot2(ab(slab), par), par)
MirrorOperations ==
    {<<Plane(<<Zero, Zero>>, <<One, Zero>>), FALSE>>,
     <<Plane(<<Zero, Zero>>, <<One, Zero>>), TRUE>>,
     <<Plane(<<<<1, 8>>, Zero>>, <<Zero, One>>), FALSE>>,
     <<Plane(<<Zero, Zero>>, <<One, One>>), FALSE>>}
Rotations ==
    {<<<<Zero, Zero>>, 1>>, <<<<Zero, Zero>>, 2>>, <<<<Zero, Zero>>, 4>>,
     <<<<One, Zero>>, 1>>, <<<<One, Zero>>, 2>>}
Translations ==
    {<<<<Zero, Zero>>, TRUE>>, <<<<Zero, Zero>>, FALSE>>,
     <<<<Q(2), Zero, Zero>>, TRUE>>}

IsMirrorSymmetric ==
    \E mo \in MirrorOperations, eps \in EpsGrid :
        \E r \in {isMirrorSymmetric(atoms, slab, mo[1], eps, mo[2])} :
            /\ Returns("isMirrorSymmetric", <<mo[1], eps, mo[2]>>, r)
            /\ UNCHANGED sc

IsRotationSymmetric ==
    \E ro \in Rotations, eps \in EpsGrid :
        \E r \in {isRotationSymmetric(atoms, slab, ro[1], ro[2], eps)} :
            /\ Returns("isRotationSymmetric", <<ro[1], ro[2], eps>>, r)
            /\ UNCHANGED sc

IsTranslationSymmetric ==
    \E tr \in Translations, eps \in EpsGrid :
        \E r \in {isTranslationSymmetric(atoms, slab, tr[1], eps, tr[2], None)} :
            /\ Returns("isTranslationSymmetric", <<tr[1], eps, tr[2]>>, r)
            /\ UNCHANGED sc

\* the matrices makeSupercell is called with: of determinant 1 and -1, of
\* larger determinant with and without positive entries, singular, and not
\* integer
Transforms ==
    {QMat(m) : m \in {<<<<1, 0>>, <<0, 1>>>>, <<<<0, 1>>, <<1, 0>>>>,
                      <<<<-1, 0>>, <<0, -1>>>>, <<<<2, 0>>, <<0, 1>>>>,
                      <<<<1, 0>>, <<0, 2>>>>, <<<<2, 0>>, <<0, 2>>>>,
                      <<<<1, 1>>, <<-1, 1>>>>, <<<<1, -1>>, <<1, 2>>>>,
                      <<<<-1, 0>>, <<0, -2>>>>, <<<<0, -2>>, <<-1, 0>>>>,
                      <<<<1, 2>>, <<2, 4>>>>}}
    \cup {<<<<<<1, 2>>, Zero>>, <<Zero, One>>>>}

\* the matrices apply_matrix_transformation is called with: the mirrors
\* x -> -x and z -> -z, a stretch along x, a singular and a 2x2 matrix
Mx == QMat(<<<<-1, 0, 0>>, <<0, 1, 0>>, <<0, 0, 1>>>>)
Mz == QMat(<<<<1, 0, 0>>, <<0, 1, 0>>, <<0, 0, -1>>>>)
Stretch == QMat(<<<<2, 0, 0>>, <<0, 1, 0>>, <<0, 0, 1>>>>)
Matrices ==
    {Mx, Mz, Stretch, QMat(<<<<0, 0, 0>>, <<0, 0, 0>>, <<0, 0, 0>>>>),
     QMat(<<<<1, 0>>, <<0, 1>>>>)}
\* those the supercell is changed with
SupercellMatrices == {Mz, Stretch}

\* the argument lists apply_scaling is called with: one and three numbers,
\* zero and factors just below the threshold, too few and too many
\* arguments, and arguments that are no numbers
Scalings ==
    {<<Q(2)>>, <<<<1, 2>>>>, <<One, One, <<1, 2>>>>, <<Q(2), One, One>>,
     <<Q(-1), One, Q(2)>>, <<One, One, One>>,
     <<Zero>>, <<One, <<1, 1000000>>, One>>, <<One, One, <<-1, 1000000>>>>,
     <<>>, <<One, Q(2)>>, <<Zero, One>>, <<One, One, One, One>>,
     <<None>>, <<One, None, One>>, <<Zero, None, One>>}

\* whether the nonzero entries of a unit cell are within the bounds
CellWithin(ucell, least) ==
    \A i \in 1..3 : \A j \in 1..3 :
        \/ ucell[i][j] = Zero
        \/ /\ RLe(RAbs(ucell[i][j]), Q(MaxCell))
           /\ RLe(least, RAbs(ucell[i][j]))

\* slab.apply_scaling(*scaling) with one of the argument lists scalings,
\* while the entries of the unit cell stay between least and MaxCell
ApplyScalingWith(scalings, least) ==
    \E scaling \in scalings :
        \E r \in {apply_scaling(atoms, slab, scaling)} :
            /\ CellWithin(r.slab.ucell, least)
            /\ Returns("apply_scaling", scaling, r)
            /\ UNCHANGED sc

ApplyScaling == ApplyScalingWith(Scalings, One)
\* the shrinking of a by 1/1000 down to 1e-6, and rejected calls
ShrinkA ==
    ApplyScalingWith({<<<<1, 1000>>, One, One>>, <<Zero>>,
                      <<One, One, <<1, 1000000>>>>}, <<1, 1000000>>)

\* slab.rotateUnitCell(order) while the stack has room
RotateUnitCellWith(orders) ==
    /\ Len(slab.ucell_mod) < MaxMods
    /\ \E order \in orders :
        \E r \in {rotateUnitCell(atoms, slab, order, TRUE)} :
            /\ Returns("rotateUnitCell", <<order>>, r)
            /\ UNCHANGED sc

RotateUnitCell == RotateUnitCellWith({1, 2, 4})
\* the rotation by half a turn
RotateUnitCellHalf == RotateUnitCellWith({2})

\* slab.revertUnitCell(restoreTo) with restoreTo an earlier value of the
\* stack (restoreTo=None is the empty stack)
RevertUnitCell ==
    \E n \in 0..Len(slab.ucell_mod) :
        \E restoreTo \in {SubSeq(slab.ucell_mod, 1, n)} :
            \E r \in {revertUnitCell(atoms, slab, restoreTo)} :
                /\ Returns("revertUnitCell", <<restoreTo>>, r)
                /\ UNCHANGED sc

\* slab.getCartesianCoordinates(updateOrigin=updateOrigin)
GetCartesianCoordinates ==
    \E updateOrigin \in BOOLEAN :
        \E r \in {getCartesianCoordinates(atoms, slab, updateOrigin)} :
            /\ Returns("getCartesianCoordinates", <<updateOrigin>>, r)
            /\ UNCHANGED sc

\* slab.getFractionalCoordinates()
GetFractionalCoordinates ==
    \E r \in {getFractionalCoordinates(atoms, slab)} :
        /\ Returns("getFractionalCoordinates", <<>>, r)
        /\ UNCHANGED sc

\* slab.collapseFractionalCoordinates()
CollapseFractionalCoordinates ==
    \E r \in {collapseFractionalCoordinates(atoms, slab)} :
        /\ Returns("collapseFractionalCoordinates", <<>>, r)
        /\ UNCHANGED sc

\* slab.mirror(symplane) for the planes through the origin along a and b
Mirror ==
    \E par \in {<<One, Zero>>, <<Zero, One>>} :
        \E r \in {mirror(atoms, slab, Plane(<<Zero, Zero>>, par), FALSE)} :
            /\ Returns("mirror", <<par>>, r)
            /\ UNCHANGED sc

\* slab.rotateAtoms((0, 0), order): the identity and the half turn, which
\* keep every lattice
RotateAtoms ==
    \E order \in {1, 2} :
        \E r \in {rotateAtoms(atoms, slab, <<Zero, Zero>>, order)} :
            /\ Returns("rotateAtoms", <<order>>, r)
            /\ UNCHANGED sc

\* slab.collapseCartesianCoordinates()
CollapseCartesianCoordinates ==
    \E r \in {collapseCartesianCoordinates(atoms, slab, FALSE)} :
        /\ Returns("collapseCartesianCoordinates", <<>>, r)
        /\ UNCHANGED sc

\* slab.getMinUnitCell(rp) with SYMMETRY_EPS 1/4 or 3, SYMMETRY_EPS_Z 1/4
GetMinUnitCell ==
    \E eps \in {<<1, 4>>, Q(3)} :
        \E r \in {getMinUnitCell(atoms, slab, eps, <<1, 4>>)} :
            /\ Returns("getMinUnitCell", <<eps, <<1, 4>>>>, r)
            /\ UNCHANGED sc

\* ts = slab.makeSupercell(transform)
MakeSupercellWith(transforms) ==
    \E transform \in transforms :
        \E r \in {makeSupercell(atoms, slab, transform)} :
            /\ Returns("makeSupercell", <<transform>>, r)
            /\ sc' = IF r.exc = "" THEN r.ret ELSE sc

MakeSupercell == MakeSupercellWith(Transforms)
\* the first supercell of a behaviour, for a doubling, a rotating and a
\* singular matrix
MakeFirstSupercell ==
    /\ sc = None
    /\ MakeSupercellWith({QMat(<<<<2, 0>>, <<0, 1>>>>),
                          QMat(<<<<1, 1>>, <<-1, 1>>>>),
                          QMat(<<<<1, 2>>, <<2, 4>>>>)})

\* ts.apply_matrix_transformation(trafo_matrix) on the supercell
ScApplyMatrixTransformation ==
    /\ sc # None
    /\ \E trafo_matrix \in SupercellMatrices :
        \E r \in {apply_matrix_transformation(atoms, sc[1], trafo_matrix)} :
            /\ atoms' = r.atoms
            /\ sc' = <<r.slab>>
            /\ last' = Call("ts.apply_matrix_transformation", <<trafo_matrix>>, r)
            /\ UNCHANGED <<slab, files, editor>>

ApplyMatrixTransformationWith(matrices) ==
    \E trafo_matrix \in matrices :
        \E r \in {apply_matrix_transformation(atoms, slab, trafo_matrix)} :
            /\ Returns("apply_matrix_transformation", <<trafo_matrix>>, r)
            /\ UNCHANGED sc

ApplyMatrixTransformation == ApplyMatrixTransformationWith(Matrices)
\* the quarter turn about z
Rz == QMat(<<<<0, -1, 0>>, <<1, 0, 0>>, <<0, 0, 1>>>>)
\* the in-plane transformations: the mirror x -> -x and the quarter turn,
\* and a matrix that is not orthogonal
TurnInPlane == ApplyMatrixTransformationWith({Mx, Rz, Stretch})
\* the mirror z -> -z and the singular matrix
MirrorZ ==
    ApplyMatrixTransformationWith(
        {Mz, QMat(<<<<0, 0, 0>>, <<0, 0, 0>>, <<0, 0, 0>>>>)})

----------------------------------------------------------------------------
(* Layering and sublayering of stacks of atoms                             *)

OneAtom == <<[el |-> "Ag", pos |-> <<Zero, Zero, <<1, 8>>>>]>>
InitLayering ==
    InitFrom(({SquareCell} \X Configs(Stacked) \X {FALSE})
             \cup {<<TiltedCell, OneAtom, FALSE>>})
NextLayering == CreateLayers \/ CreateSublayers
SpecLayering == InitLayering /\ [][NextLayering]_vars

\* the atoms of the slab that layer l holds
AtomsIn(l) == Range(l.atlist)
\* every atom of the slab is in the atom list of exactly one of layers, once
Partitioned(layers) ==
    \A id \in Range(slab.atlist) :
        /\ Cardinality({i \in DOMAIN layers : id \in AtomsIn(layers[i])}) = 1
        /\ \A i \in DOMAIN layers :
             Cardinality({k \in DOMAIN layers[i].atlist : layers[i].atlist[k] = id}) <= 1
\* the layers are numbered 0..L-1 in list order
Numbered(layers) == \A i \in DOMAIN layers : layers[i].num = i - 1
\* layer i lies above layer i+1, and layer 0 holds a topmost atom
TopDown(layers) ==
    /\ \A i \in DOMAIN layers : \A j \in DOMAIN layers :
         i < j => \A x \in AtomsIn(layers[i]), y \in AtomsIn(layers[j]) :
                    RLe(atoms[y].pos[3], atoms[x].pos[3])
    /\ layers # <<>> =>
         \E x \in AtomsIn(layers[1]) : \A y \in Range(slab.atlist) :
            RLe(atoms[y].pos[3], atoms[x].pos[3])

\* C1: after createLayers on a slab with in-plane a, b and any ascending
\* cutoff list, every atom is in exactly one layer, the layers are numbered
\* 0..L-1 and lie top-down with layer 0 the topmost.
C1_LayersPartitionAtoms ==
    (last.op = "createLayers" /\ last.exc # "InvalidUnitCellError") =>
        /\ Partitioned(slab.layers)
        /\ Numbered(slab.layers)
        /\ TopDown(slab.layers)

\* what createLayers does guarantee: the same, whenever it returns
C1_LayersPartitionAtomsOnReturn ==
    (last.op = "createLayers" /\ last.exc = "") =>
        /\ Partitioned(slab.layers)
        /\ Numbered(slab.layers)
        /\ TopDown(slab.layers)

\* createLayers has returned three layers for two cuts between the atoms
C1_Witness ==
    /\ last.op = "createLayers" /\ last.exc = ""
    /\ Len(slab.layers) >= 2
    /\ Len(last.arg[1]) >= 2

\* C2: after createSublayers(eps) every atom is in exactly one sublayer, the
\* atoms of a sublayer have one element, and the sublayers are numbered
\* 0..S-1.
C2_SublayersPartitionAtoms ==
    last.op = "createSublayers" =>
        /\ last.exc = ""
        /\ Partitioned(slab.sublayers)
        /\ Numbered(slab.sublayers)
        /\ \A i \in DOMAIN slab.sublayers :
             \A x \in AtomsIn(slab.sublayers[i]), y \in AtomsIn(slab.sublayers[i]) :
                atoms[x].el = atoms[y].el

\* createSublayers has made several sublayers of atoms of two elements
C2_Witness ==
    /\ last.op = "createSublayers"
    /\ Len(slab.sublayers) >= 2
    /\ \E x \in Range(slab.atlist), y \in Range(slab.atlist) :
          atoms[x].el # atoms[y].el

----------------------------------------------------------------------------
(* Symmetry tests of surfaces                                              *)

InitSymmetry ==
    InitFrom(({SquareCell} \X Picks(InPlane) \X {FALSE})
             \cup ({ObliqueCell} \X Picks(SubSeq(InPlane, 1, 3)) \X {FALSE})
             \cup {<<TiltedCell, OneAtom, FALSE>>})
NextSymmetry ==
    \/ CreateSublayers
    \/ IsMirrorSymmetric
    \/ IsRotationSymmetric
    \/ IsTranslationSymmetric
SpecSymmetry == InitSymmetry /\ [][NextSymmetry]_vars

SublayerTests == {"isMirrorSymmetric", "isRotationSymmetric"}
SymmetryTests == SublayerTests \cup {"isTranslationSymmetric"}

\* C3: each of the three symmetry tests raises InvalidUnitCellError, and
\* returns no boolean, when the unit-cell vector a or b has a z component.
C3_TestsRejectOutOfPlaneCell ==
    (last.op \in SymmetryTests /\ a_b_out_of_plane(slab)) =>
        /\ last.exc = "InvalidUnitCellError"
        /\ last.ret = None

\* C4: a mirror or rotation test called on a slab without sublayers fails
\* with MissingSublayersError and returns neither True nor False.
C4_TestsNeedSublayers ==
    (last.op \in SublayerTests /\ slab.sublayers = <<>>) =>
        /\ last.exc = "MissingSublayersError"
        /\ last.ret = None

\* the image of the in-plane point c under the operation of the last test
ImageOf(c) ==
    IF last.op = "isMirrorSymmetric"
    THEN VAdd(VAdd(Dot2(rotmirm(last.arg[1]), VSub(c, last.arg[1].pos)),
                   last.arg[1].pos),
              IF last.arg[3] THEN glidevec(slab, last.arg[1]) ELSE <<Zero, Zero>>)
    ELSE VAdd(Dot2(rotation_matrix_order(last.arg[2]), VSub(c, last.arg[1])),
              last.arg[1])
EpsOf == IF last.op = "isMirrorSymmetric" THEN last.arg[2] ELSE last.arg[3]
RFloor(x) == x[1] \div x[2]
\* t and y coincide within eps modulo the lattice of a and b
Coincide(t, y, eps) ==
    LET d == Dot2(Inv2(ab(slab)), VSub(t, y))
    IN  \E n1 \in (RFloor(d[1]) - 1)..(RFloor(d[1]) + 2),
           n2 \in (RFloor(d[2]) - 1)..(RFloor(d[2]) + 2) :
            RLe(Norm2(VSub(VSub(t, y), Dot2(ab(slab), <<Q(n1), Q(n2)>>))),
                RMul(eps, eps))
InPlaneOf(id) == <<atoms[id].cartpos[1], atoms[id].cartpos[2]>>
\* the atoms ids map onto themselves under the operation of the last test
MapOntoThemselves(ids) ==
    \A x \in ids : \E y \in ids :
        Coincide(ImageOf(InPlaneOf(x)), InPlaneOf(y), EpsOf)

C6_TestsReflexive ==
    (/\ ~a_b_out_of_plane(slab)
     /\ \/ last.op = "isTranslationSymmetric"
           /\ \A i \in DOMAIN last.arg[1] : last.arg[1][i] = Zero
        \/ last.op = "isRotationSymmetric" /\ last.arg[2] = 1)
    => last.ret = <<TRUE>>

\* the rotation of order 1 about an axis off the origin was tested on a
\* slab with sublayers that no other rotation about that axis leaves alone
C6_Witness ==
    /\ last.op = "isRotationSymmetric" /\ last.arg[2] = 1
    /\ last.arg[1] # <<Zero, Zero>>
    /\ slab.sublayers # <<>>
    /\ last.ret = <<TRUE>>
    /\ ~isRotationSymmetric(atoms, slab, last.arg[1], 2, last.arg[3]).ret[1]

----------------------------------------------------------------------------
(* Supercells                                                              *)

\* one or two of an Ag atom at the corner and an O atom on the a edge
Adsorbed == <<InPlane[1], InPlane[3]>>

InitSupercell == InitFrom({SquareCell} \X Picks(Adsorbed) \X BOOLEAN)
NextSupercell == MakeSupercell \/ ScApplyMatrixTransformation
SpecSupercell == InitSupercell /\ [][NextSupercell]_vars

\* whether makeSupercell was just called with an integer matrix of nonzero
\* determinant
IntegerTransform ==
    /\ last.op = "makeSupercell"
    /\ \A i \in 1..2 : \A j \in 1..2 : RIsInt(last.arg[1][i][j])
    /\ AbsDet(IntMat(last.arg[1])) >= 1

\* C7: makeSupercell(M) with an integer 2x2 matrix M, abs(det M) = k >= 1,
\* on a slab of N atoms returns a slab of exactly k * N atoms, whatever the
\* signs of the entries of M
C7_SupercellHasDetTimesAtoms ==
    IntegerTransform =>
        /\ last.exc = ""
        /\ Len(last.ret[1].atlist) =
               AbsDet(IntMat(last.arg[1])) * Len(slab.atlist)

\* a supercell for a matrix of determinant 2 without a positive entry: it
\* has the atoms of the slab only
C7_Witness ==
    /\ IntegerTransform
    /\ AbsDet(IntMat(last.arg[1])) = 2
    /\ \A i \in 1..2 : \A j \in 1..2 : last.arg[1][i][j][1] <= 0
    /\ last.exc = ""
    /\ Len(last.ret[1].atlist) = Len(slab.atlist)

\* the supercells of matrices with a positive entry have k * N atoms
C7_PositiveEntrySupercellHasDetTimesAtoms ==
    (IntegerTransform
        /\ \E i \in 1..2 : \E j \in 1..2 : last.arg[1][i][j][1] > 0) =>
        /\ last.exc = ""
        /\ Len(last.ret[1].atlist) =
               AbsDet(IntMat(last.arg[1])) * Len(slab.atlist)

\* the slab and its atoms (those of its bulk slab too) are as before the step
SlabKept ==
    /\ slab' = slab
    /\ \A id \in OwnIds(slab) : atoms'[id] = atoms[id]

\* C8: makeSupercell returns a slab that shares no atom with the slab it was
\* called on and leaves that slab (unit cell, atom list and order) and its
\* atoms (positions, oriN) unchanged; a later change of the returned slab
\* leaves them unchanged too
C8_SupercellIsIndependentCopy ==
    [][/\ (last'.op = "makeSupercell" /\ last'.exc = "") =>
            (SlabKept /\ OwnIds(sc'[1]) \cap OwnIds(slab') = {})
       /\ (last'.op = "ts.apply_matrix_transformation") => SlabKept]_vars

\* a supercell larger than the slab, after a transformation of it
C8_Witness ==
    /\ last.op = "ts.apply_matrix_transformation"
    /\ last.exc = ""
    /\ Len(sc[1].atlist) > Len(slab.atlist)
    /\ sc[1].ucell # slab.ucell

----------------------------------------------------------------------------
(* Matrix transformations                                                  *)

\* one or two of the Ag atom at the corner, the O atom on the a edge and the
\* Ag atom above it
Terrace == <<InPlane[1], InPlane[3], InPlane[5]>>

InitTransform == InitFrom({SquareCell, ObliqueCell} \X Picks(Terrace) \X BOOLEAN)
NextTransform ==
    CreateLayersBelowSurface \/ CreateSublayers \/ ApplyMatrixTransformation
SpecTransform == InitTransform /\ [][NextTransform]_vars

\* whether a matrix is not 3x3 or not orthogonal
NotOrthogonal3x3(O) == ~Is3x3(O) \/ MatMul3(O, Transpose3(O)) # Identity3

\* ValueError and its subclass numpy.linalg.LinAlgError
ValueErrors == {"ValueError", "LinAlgError"}

\* C9: apply_matrix_transformation with a matrix that is not 3x3 or not
\* orthogonal raises ValueError and leaves the unit cell, the Cartesian
\* positions of the atoms, the cached z origin, the layers, the sublayers and
\* the bulk slab as they were
C9_RejectedTransformationKeepsSlab ==
    [][(last'.op = "apply_matrix_transformation"
            /\ NotOrthogonal3x3(last'.arg[1])) =>
        /\ last'.exc \in ValueErrors
        /\ slab'.ucell = slab.ucell
        /\ \A id \in OwnIds(slab) : atoms'[id].cartpos = atoms[id].cartpos
        /\ slab'.topat_ori_z = slab.topat_ori_z
        /\ slab'.layers = slab.layers
        /\ slab'.sublayers = slab.sublayers
        /\ slab'.bulkslab = slab.bulkslab]_vars

\* a rejected stretch of a slab with layers, sublayers and a bulk slab
C9_Witness ==
    /\ last.op = "apply_matrix_transformation"
    /\ last.arg[1] = Stretch
    /\ last.exc = "ValueError"
    /\ slab.layers # <<>>
    /\ slab.sublayers # <<>>
    /\ slab.bulkslab # None

\* C10: a successful apply_matrix_transformation(O) on a slab that is not a
\* bulk slab leaves, when row 3 of O is not (0, 0, 1), no layers, no
\* sublayers and no bulk slab; otherwise it leaves the layers and sublayers
\* as they were and has applied O to the unit cell of the bulk slab, if any
C10_TransformationKeepsOrClears ==
    [][(last'.op = "apply_matrix_transformation" /\ last'.exc = ""
            /\ ~slab.is_bulk) =>
        IF last'.arg[1][3] # <<Zero, Zero, One>>
        THEN /\ slab'.layers = <<>>
             /\ slab'.sublayers = <<>>
             /\ slab'.bulkslab = None
        ELSE /\ slab'.layers = slab.layers
             /\ slab'.sublayers = slab.sublayers
             /\ slab.bulkslab # None =>
                    /\ slab'.bulkslab # None
                    /\ slab'.bulkslab[1].ucell =
                           MatMul3(last'.arg[1], slab.bulkslab[1].ucell)]_vars

\* a mirrored slab that kept its layers and sublayers, and whose bulk slab
\* was mirrored with it
C10_Witness ==
    /\ last.op = "apply_matrix_transformation"
    /\ last.arg[1] = Mx
    /\ last.exc = ""
    /\ slab.layers # <<>>
    /\ slab.sublayers # <<>>
    /\ slab.bulkslab # None
    /\ slab.bulkslab[1].ucell = slab.ucell

\* a slab turned upside down: once it had layers, sublayers and a bulk slab
C10_WitnessCleared ==
    /\ last.op = "apply_matrix_transformation"
    /\ last.arg[1] = Mz
    /\ last.exc = ""
    /\ slab.layers = <<>>
    /\ slab.bulkslab = None

\* C11: in every reachable state layers_initialized is true only if the
\* slab has layers: a new slab has neither, createLayers gives both, and a
\* transformation that changes z takes both away again
C11_LayersInitializedOnlyWithLayers ==
    slab.layers_initialized => slab.layers # <<>>

\* a layered slab turned upside down: its layers are gone, the flag is not
C11_Witness ==
    /\ last.op = "apply_matrix_transformation"
    /\ last.arg[1] = Mz
    /\ last.exc = ""
    /\ slab.layers = <<>>
    /\ slab.layers_initialized

----------------------------------------------------------------------------
(* Scaling                                                                 *)

InitScaling ==
    InitFrom({SquareCell, ObliqueCell} \X Picks(Adsorbed) \X BOOLEAN)
NextScaling == ApplyScaling
SpecScaling == InitScaling /\ [][NextScaling]_vars

\* whether the arguments of a call are not one or three numbers
Malformed(scaling) ==
    Len(scaling) \notin {1, 3} \/ \E i \in DOMAIN scaling : scaling[i] = None
\* whether one of the numbers is below 1e-5 in absolute value
Collapsing(scaling) ==
    \E i \in DOMAIN scaling : RLt(RAbs(scaling[i]), <<1, 100000>>)
\* the unit cells of the slab and of its bulk slab are as before the step
CellsKept ==
    /\ slab'.ucell = slab.ucell
    /\ slab'.bulkslab = None <=> slab.bulkslab = None
    /\ slab.bulkslab # None => slab'.bulkslab[1].ucell = slab.bulkslab[1].ucell
\* the unit cell with its vectors a, b, c scaled by the factors f
ScaledCell(ucell, f) ==
    [i \in 1..3 |-> [j \in 1..3 |-> RMul(ucell[i][j], f[IF Len(f) = 1 THEN 1 ELSE j])]]

\* C12: apply_scaling raises TypeError when called with other than one or
\* three numbers, and ValueError when called with one or three numbers one
\* of which is below 1e-5 in absolute value; either way the unit cells of the
\* slab and of its bulk slab stay as they were.  A successful call scales
\* the unit cell of the bulk slab, if any, by the same factors.
C12_ScalingRejectsOrPropagates ==
    [][last'.op = "apply_scaling" =>
        IF Malformed(last'.arg)
        THEN last'.exc = "TypeError" /\ CellsKept
        ELSE IF Collapsing(last'.arg)
        THEN last'.exc = "ValueError" /\ CellsKept
        ELSE /\ last'.exc = ""
             /\ slab'.ucell = ScaledCell(slab.ucell, last'.arg)
             /\ slab'.bulkslab = None <=> slab.bulkslab = None
             /\ slab.bulkslab # None =>
                    slab'.bulkslab[1].ucell =
                        ScaledCell(slab.bulkslab[1].ucell, last'.arg)]_vars

\* a factor of 1e-6 was rejected on a scaled slab with a bulk slab
C12_Witness ==
    /\ last.op = "apply_scaling"
    /\ last.arg = <<One, <<1, 1000000>>, One>>
    /\ last.exc = "ValueError"
    /\ slab.bulkslab # None
    /\ slab.ucell \notin {SquareCell, ObliqueCell}
    /\ slab.bulkslab[1].ucell = slab.ucell

----------------------------------------------------------------------------
(* The unit cell under all its operations                                  *)

InitCell == InitFrom({SquareCell} \X Picks(Adsorbed) \X {FALSE})
\* the operations on the slab, and last the making of a supercell of it
\* (makeSupercell leaves the slab as it is, so every slab state the other
\* operations reach is one a supercell is made of)
NextCell ==
    \/ sc = None /\ ShrinkA
    \/ sc = None /\ MirrorZ
    \/ sc = None /\ RotateUnitCellHalf
    \/ sc = None /\ RevertUnitCell
    \/ MakeFirstSupercell
SpecCell == InitCell /\ [][NextCell]_vars

\* whether a unit cell is singular: its determinant is zero (so it is when
\* one of its vectors has length zero)
Singular(ucell) == Det3(ucell) = Zero

\* C13: from a non-singular unit cell, after any calls of apply_scaling,
\* apply_matrix_transformation, rotateUnitCell and revertUnitCell the unit
\* cell of the slab is non-singular, and so is that of a slab makeSupercell
\* returned
C13_CellStaysNonSingular ==
    /\ ~Singular(slab.ucell)
    /\ sc # None => ~Singular(sc[1].ucell)

\* a successful mirror z -> -z left a unit cell whose vector a is zero
C13_Witness ==
    /\ last.op = "apply_matrix_transformation"
    /\ last.arg[1] = Mz
    /\ last.exc = ""
    /\ Column(slab.ucell, 1) = <<Zero, Zero, Zero>>

\* the matrices and factors that would make the unit cell singular at once
\* are rejected
C13_SingularArgumentsRejected ==
    /\ (last.op = "apply_scaling" /\ Collapsing(last.arg))
            => last.exc \in {"ValueError", "TypeError"}
    /\ (last.op = "apply_matrix_transformation" /\ Is3x3(last.arg[1])
            /\ Singular(last.arg[1])) => last.exc \in ValueErrors
    /\ (last.op = "makeSupercell" /\ Det2(last.arg[1]) = Zero)
            => last.exc # ""

----------------------------------------------------------------------------
(* The minimal unit cell                                                   *)

\* Ag atoms at the corner, the middle of the edges a and b and the centre
\* of the cell, and O atoms on the a edge at 1/4 and 3/4
Halves ==
    <<[el |-> "Ag", pos |-> <<Zero, Zero, <<1, 8>>>>],
      [el |-> "Ag", pos |-> <<<<1, 2>>, Zero, <<1, 8>>>>],
      [el |-> "Ag", pos |-> <<Zero, <<1, 2>>, <<1, 8>>>>],
      [el |-> "Ag", pos |-> <<<<1, 2>>, <<1, 2>>, <<1, 8>>>>],
      [el |-> "O", pos |-> <<<<1, 4>>, Zero, <<1, 8>>>>],
      [el |-> "O", pos |-> <<<<3, 4>>, Zero, <<1, 8>>>>]>>

InitMinCell ==
    InitFrom({SquareCell, ObliqueCell} \X PicksUpTo(Halves, MaxCellAtoms)
             \X {FALSE})
NextMinCell == GetMinUnitCell
SpecMinCell == InitMinCell /\ [][NextMinCell]_vars

\* the sublayers of the slab with its c vector along z, by element and
\* height: the atom lists of the test slab of getMinUnitCell
FewestAtoms ==
    LET heights == {atoms[id].cartpos[3] : id \in Range(slab.atlist)}
        groups == {{id \in Range(slab.atlist) :
                        atoms[id].el = el /\ atoms[id].cartpos[3] = z} :
                     el \in Range(slab.elements), z \in heights} \ {{}}
    IN  CHOOSE n \in {Cardinality(g) : g \in groups} :
            \A g \in groups : Cardinality(g) >= n

\* the area of the (a, b) cell of the slab
SlabArea == RAbs(Det2(ab(slab)))

\* C14: whenever getMinUnitCell returns (True, mincell), the area of mincell
\* is smaller than that of the (a, b) cell of the slab, and n times the area
\* of mincell, n the number of atoms of the sublayer with the fewest atoms,
\* is at least the area of the slab's cell less the tolerance n * eps^2
C14_MinCellSmallerNotBelowFloor ==
    (last.op = "getMinUnitCell" /\ last.exc = "" /\ last.ret[1]) =>
        /\ RLt(RAbs(Det2(last.ret[2])), SlabArea)
        /\ RLe(RSub(SlabArea,
                    RMul(Q(FewestAtoms), RMul(last.arg[1], last.arg[1]))),
               RMul(Q(FewestAtoms), RAbs(Det2(last.ret[2]))))

\* a cell with four atoms of a sublayer was reduced to a quarter
C14_Witness ==
    /\ last.op = "getMinUnitCell"
    /\ last.exc = ""
    /\ last.ret[1]
    /\ FewestAtoms = 4
    /\ RMul(Q(4), RAbs(Det2(last.ret[2]))) = SlabArea

\* the candidate vectors of the slab for the tolerance eps: the differences
\* of the positions of the atoms of the sublayer with the fewest atoms that
\* are translation symmetries of the slab with c along z
Candidates(eps) ==
    LET o == TestSlab(deepcopy(atoms, slab), <<1, 4>>)
    IN  tvecs(o.atoms, o.slab,
              vlist(o.atoms, getLowOccLayer(o.slab).atlist), eps)

\* no cell of a or b and a candidate vector is smaller than the (a, b) cell
\* by more than eps^2
NoSmallerCell(eps) ==
    \A k \in DOMAIN Candidates(eps) : \A i \in 1..2 :
        ~RLt(Area(<<CellRows(slab)[i], Candidates(eps)[k]>>),
             RSub(SlabArea, RMul(eps, eps)))

\* the cell of the slab cannot be reduced: one of the three cases
Irreducible(eps) ==
    \/ FewestAtoms < 2
    \/ Candidates(eps) = <<>>
    \/ NoSmallerCell(eps)

\* C15: getMinUnitCell returns (False, the (a, b) cell of the slab) and
\* leaves the slab as it is when the sublayer with the fewest atoms has
\* fewer than 2 atoms, when no difference of two positions of that sublayer
\* is a translation symmetry of the slab, and when no cell of a or b and a
\* candidate vector is smaller than the present cell
C15_IrreducibleCellReturnedUnchanged ==
    [][\A eps \in {<<1, 4>>, Q(3)} :
          (last'.op = "getMinUnitCell" /\ last'.arg[1] = eps
              /\ last'.exc = "" /\ Irreducible(eps)) =>
            /\ last'.ret = <<FALSE, CellRows(slab)>>
            /\ slab' = slab
            /\ atoms' = atoms]_vars

\* the third case: two atoms, a candidate vector, and no smaller cell
C15_Witness ==
    /\ last.op = "getMinUnitCell"
    /\ last.exc = ""
    /\ FewestAtoms >= 2
    /\ Candidates(last.arg[1]) # <<>>
    /\ NoSmallerCell(last.arg[1])
    /\ last.ret = <<FALSE, CellRows(slab)>>

\* the first case: a sublayer of one atom
C15_WitnessOneAtom ==
    /\ last.op = "getMinUnitCell"
    /\ FewestAtoms = 1
    /\ Len(slab.atlist) = 3
    /\ last.ret = <<FALSE, CellRows(slab)>>

\* the second case: two atoms of a sublayer, no translation symmetry
C15_WitnessNoSymmetry ==
    /\ last.op = "getMinUnitCell"
    /\ FewestAtoms >= 2
    /\ Candidates(last.arg[1]) = <<>>
    /\ last.ret = <<FALSE, CellRows(slab)>>

----------------------------------------------------------------------------
(* Rotating the unit cell and reverting it                                 *)

InitRevert == InitFrom({SquareCell, ObliqueCell} \X Picks(Adsorbed) \X {FALSE})
NextRevert == RotateUnitCell \/ RevertUnitCell
SpecRevert == InitRevert /\ [][NextRevert]_vars

\* the unit cell that the steps of the stack from its k-th on make of ucell
RECURSIVE Replayed(_, _, _)
Replayed(ucell, mods, k) ==
    IF k > Len(mods) THEN ucell
    ELSE Replayed(MatMul3(mods[k][2], ucell), mods, k + 1)

\* whether the vector from the Cartesian position u to v (z counted from
\* the top atom downwards) is a vector of the lattice of ucell
LatticeVector(ucell, u, v) ==
    \A i \in 1..3 :
        RIsInt(Dot3(Inv3(ucell), <<RSub(v[1], u[1]), RSub(v[2], u[2]),
                                   RSub(u[3], v[3])>>)[i])

\* the Cartesian position of every atom is the same in the next state up to
\* a vector of the lattice of the cell before or of the cell after the step
MovedByLatticeVectors ==
    \A id \in DOMAIN atoms :
        \/ LatticeVector(slab.ucell, atoms[id].cartpos, atoms'[id].cartpos)
        \/ LatticeVector(slab'.ucell, atoms[id].cartpos, atoms'[id].cartpos)

\* revertUnitCell(restoreTo) leaves the unit cell from which the steps after
\* len(restoreTo) lead to the present one and truncates the stack to
\* len(restoreTo); with an empty stack it changes nothing
C16_RevertRestoresCellAndStack ==
    [][(last'.op = "revertUnitCell" /\ last'.exc = "") =>
          IF slab.ucell_mod = <<>>
          THEN slab' = slab /\ atoms' = atoms
          ELSE /\ slab'.ucell_mod
                    = SubSeq(slab.ucell_mod, 1, Len(last'.arg[1]))
               /\ Replayed(slab'.ucell, slab.ucell_mod, Len(last'.arg[1]) + 1)
                    = slab.ucell
               /\ DOMAIN atoms' = DOMAIN atoms]_vars

\* C16: revertUnitCell(restoreTo) on a stack of 'lmul' steps of
\* rotateUnitCell restores the unit cell of the step len(restoreTo),
\* truncates the stack to len(restoreTo) and leaves every atom at its
\* Cartesian position up to a lattice translation; with an empty stack it
\* changes nothing
C16_RevertKeepsPositionsModuloLattice ==
    [][(last'.op = "revertUnitCell" /\ last'.exc = "") =>
          IF slab.ucell_mod = <<>>
          THEN slab' = slab /\ atoms' = atoms
          ELSE /\ slab'.ucell_mod
                    = SubSeq(slab.ucell_mod, 1, Len(last'.arg[1]))
               /\ Replayed(slab'.ucell, slab.ucell_mod, Len(last'.arg[1]) + 1)
                    = slab.ucell
               /\ MovedByLatticeVectors]_vars

\* the positions are kept modulo the lattice when at most one step is undone
C16_OneStepKeepsPositionsModuloLattice ==
    [][(last'.op = "revertUnitCell" /\ last'.exc = ""
          /\ Len(slab.ucell_mod) <= Len(last'.arg[1]) + 1) =>
          MovedByLatticeVectors]_vars

\* the stack was reverted to its first step, a half turn: the half turn
\* alone leaves the atoms off the origin at negative fractional positions,
\* the undoing of a later step collapses them into the cell
C16_Witness ==
    /\ last.op = "revertUnitCell"
    /\ last.exc = ""
    /\ last.arg[1] = <<<<"lmul", m3(rotation_matrix_order(2))>>>>
    /\ slab.ucell_mod = last.arg[1]
    /\ slab.ucell = MatMul3(m3(rotation_matrix_order(2)), ObliqueCell)
    /\ \E id \in Range(slab.atlist) : atoms[id].pos[1] # Zero
    /\ \A id \in Range(slab.atlist) :
           RLe(Zero, atoms[id].pos[1]) /\ RLt(atoms[id].pos[1], One)

----------------------------------------------------------------------------
(* Fractional and Cartesian coordinates                                    *)

\* atoms as a structure file gives them: inside the cell; outside of it
\* along a, b and c; a rounding error below zero along a; below the cell
RawSites ==
    <<[el |-> "Ag", pos |-> <<<<3, 4>>, Zero, <<1, 8>>>>],
      [el |-> "O", pos |-> <<<<-1, 4>>, <<5, 4>>, <<9, 8>>>>],
      [el |-> "Ag", pos |-> <<<<-1, 4194304>>, <<1, 2>>, <<3, 8>>>>],
      [el |-> "Ag", pos |-> <<<<1, 4>>, <<1, 4>>, <<-1, 8>>>>]>>

\* a slab read from a structure file, before fullUpdate
RawSlab(ucell, cfg) ==
    [atoms |-> Tuple([id \in 1..Len(cfg) |-> Atom(cfg[id].el, cfg[id].pos, id)]),
     slab |-> BaseSlab(ucell, Tuple([i \in 1..Len(cfg) |-> i]),
                       ElementsOf(cfg, 1), FALSE)]

InitCoordinates ==
    \E ucell \in {SquareCell, ObliqueCell, TiltedCell} :
        \E cfg \in Picks(RawSites) :
            /\ atoms = RawSlab(ucell, cfg).atoms
            /\ slab = RawSlab(ucell, cfg).slab
            /\ sc = None
            /\ last = [op |-> "new", arg |-> <<>>, exc |-> "", ret |-> None]
            /\ files = None
            /\ editor = None
NextCoordinates ==
    \/ GetCartesianCoordinates
    \/ GetFractionalCoordinates
    \/ CollapseFractionalCoordinates
SpecCoordinates == InitCoordinates /\ [][NextCoordinates]_vars

\* C17: after getCartesianCoordinates, with updateOrigin true or false,
\* getFractionalCoordinates gives every atom the fractional position it has
C17_FractionalOfCartesianIsIdentity ==
    (last.op = "getCartesianCoordinates" /\ last.exc = "") =>
        /\ getFractionalCoordinates(atoms, slab).exc = ""
        /\ \A id \in DOMAIN atoms :
               getFractionalCoordinates(atoms, slab).atoms[id].pos
                   = atoms[id].pos

\* the round trip with a z origin cached by an earlier call, which is not
\* the height of the top atom any more, in a tilted cell
C17_Witness ==
    /\ last.op = "getCartesianCoordinates"
    /\ last.arg = <<FALSE>>
    /\ slab.ucell = TiltedCell
    /\ slab.topat_ori_z # <<Dot3(slab.ucell,
                                 atoms[SortedByZ(atoms, slab.atlist)[
                                     Len(slab.atlist)]].pos)[3]>>
    /\ \A id \in DOMAIN atoms :
           getFractionalCoordinates(atoms, slab).atoms[id].pos = atoms[id].pos

\* the round trip with updateOrigin = True, for an atom outside of the cell
C17_WitnessUpdateOrigin ==
    /\ last.op = "getCartesianCoordinates"
    /\ last.arg = <<TRUE>>
    /\ slab.ucell = ObliqueCell
    /\ \E id \in DOMAIN atoms : RLt(atoms[id].pos[1], Zero)
    /\ \A id \in DOMAIN atoms :
           getFractionalCoordinates(atoms, slab).atoms[id].pos = atoms[id].pos

\* x lies in [0, 1)
InUnitInterval(x) == RLe(Zero, x) /\ RLt(x, One)

\* C18: collapseFractionalCoordinates leaves the a and b components of the
\* fractional position of every atom in [0, 1) and the c component as it
\* was
C18_CollapseWrapsAandBKeepsC ==
    [][(last'.op = "collapseFractionalCoordinates" /\ last'.exc = "") =>
          \A id \in Range(slab.atlist) :
              /\ InUnitInterval(atoms'[id].pos[1])
              /\ InUnitInterval(atoms'[id].pos[2])
              /\ atoms'[id].pos[3] = atoms[id].pos[3]]_vars

\* an atom above the cell was wrapped along a and b
C18_Witness ==
    /\ last.op = "collapseFractionalCoordinates"
    /\ \E id \in Range(slab.atlist) :
           /\ atoms[id].el = "O"
           /\ atoms[id].pos[1] = <<3, 4>>
           /\ atoms[id].pos[2] = <<1, 4>>

\* the a and b components are in [0, 1], moved by an integer unless they
\* are rounded to 1.0
C18_AandBWrappedIntoClosedInterval ==
    [][(last'.op = "collapseFractionalCoordinates" /\ last'.exc = "") =>
          \A id \in Range(slab.atlist) : \A i \in 1..2 :
              /\ RLe(Zero, atoms'[id].pos[i])
              /\ RLe(atoms'[id].pos[i], One)
              /\ \/ RIsInt(RSub(atoms'[id].pos[i], atoms[id].pos[i]))
                 \/ atoms'[id].pos[i] = One]_vars

\* C19: collapseFractionalCoordinates right after
\* collapseFractionalCoordinates leaves every fractional position as it is
C19_CollapseIsIdempotent ==
    [][(last.op = "collapseFractionalCoordinates"
          /\ last'.op = "collapseFractionalCoordinates") =>
          \A id \in DOMAIN atoms : atoms'[id].pos = atoms[id].pos]_vars

\* collapseFractionalCoordinates left an atom at a = 1.0
C19_Witness ==
    /\ last.op = "collapseFractionalCoordinates"
    /\ \E id \in Range(slab.atlist) : atoms[id].pos[1] = One

\* but for a component at 1.0 a second call changes nothing
C19_IdempotentBelowOne ==
    [][(last.op = "collapseFractionalCoordinates"
          /\ last'.op = "collapseFractionalCoordinates") =>
          \A id \in DOMAIN atoms :
              \A i \in 1..3 :
                  atoms[id].pos[i] # One => atoms'[id].pos[i] = atoms[id].pos[i]]_vars

----------------------------------------------------------------------------
(* The symmetry tests on a slab with layers and sublayers                  *)

InitReadOnly == InitFrom({SquareCell} \X Picks(Terrace) \X {FALSE})
NextReadOnly ==
    \/ CreateLayersBelowSurface
    \/ CreateSublayers
    \/ IsMirrorSymmetric
    \/ IsRotationSymmetric
    \/ IsTranslationSymmetric
SpecReadOnly == InitReadOnly /\ [][NextReadOnly]_vars

\* C20: a call of isMirrorSymmetric, isRotationSymmetric or
\* isTranslationSymmetric, whatever it returns or raises, leaves the unit
\* cell, the atoms with their fractional and Cartesian positions, the order
\* of the atoms, the layers and the sublayers as they were
C20_SymmetryTestsAreReadOnly ==
    [][last'.op \in SymmetryTests =>
          /\ slab'.ucell = slab.ucell
          /\ slab'.atlist = slab.atlist
          /\ slab'.layers = slab.layers
          /\ slab'.sublayers = slab.sublayers
          /\ atoms' = atoms]_vars

\* a rotation test has returned True on a slab of two atoms with layers and
\* sublayers
C20_Witness ==
    /\ last.op = "isRotationSymmetric"
    /\ last.ret = <<TRUE>>
    /\ Len(slab.atlist) = 2
    /\ slab.layers # <<>>
    /\ slab.sublayers # <<>>

----------------------------------------------------------------------------
(* Mirrored and rotated chains of atoms                                    *)

\* the cell of the test slab, diag(3, 4, 5)
RectCell == QMat(<<<<3, 0, 0>>, <<0, 4, 0>>, <<0, 0, 5>>>>)

\* n atoms along a at the distance d, symmetric about the origin
Chain(n, d) ==
    [i \in 1..n |->
        [el |-> "Ag", pos |-> <<RMul(<<2 * i - n - 1, 2>>, d), Zero, Zero>>]]

\* a and b are perpendicular
Rectangular ==
    RAdd(RMul(slab.ucell[1][1], slab.ucell[1][2]),
         RMul(slab.ucell[2][1], slab.ucell[2][2])) = Zero

InitChain ==
    InitFrom({RectCell, SquareCell, ObliqueCell}
             \X {Chain(n, d) : n \in 1..MaxChain, d \in {<<1, 4>>, <<1, 8>>}}
             \X {FALSE})
\* the atoms are mirrored in cells whose lattice the mirror keeps
NextChain ==
    \/ Rectangular /\ Mirror
    \/ RotateAtoms
    \/ CollapseCartesianCoordinates
SpecChain == InitChain /\ [][NextChain]_vars

\* the Cartesian positions are those of the fractional ones, in the cell
Settled ==
    /\ last.op \in {"new", "collapseCartesianCoordinates"}
    /\ last.exc = ""

\* the atoms lie on the a axis, the k-th one opposite the k-th one from the
\* end, modulo the lattice
SymmetricChain ==
    \A k \in DOMAIN slab.atlist :
        /\ atoms[slab.atlist[k]].pos[2] = Zero
        /\ RIsInt(RAdd(atoms[slab.atlist[k]].pos[1],
                       atoms[slab.atlist[Len(slab.atlist) + 1 - k]].pos[1]))

\* collapseCartesianCoordinates after the call that ended as o leaves the
\* k-th atom at the in-plane position of the k-th atom from the end
ReversedWhenCollapsed(o) ==
    LET c == Then(o, collapseCartesianCoordinates(o.atoms, o.slab, FALSE))
    IN  /\ c.exc = ""
        /\ \A k \in DOMAIN slab.atlist :
               /\ c.atoms[slab.atlist[k]].cartpos[1]
                    = atoms[slab.atlist[Len(slab.atlist) + 1 - k]].cartpos[1]
               /\ c.atoms[slab.atlist[k]].cartpos[2]
                    = atoms[slab.atlist[Len(slab.atlist) + 1 - k]].cartpos[2]

\* C21: for a chain of atoms along a, symmetric about the origin, the
\* mirror across the plane through the origin along b (a and b
\* perpendicular) and the rotation of the atoms by 180 degrees about the
\* origin, each followed by collapseCartesianCoordinates, leave atom i at
\* the in-plane position of atom N + 1 - i
C21_MirroredChainIsReversedChain ==
    (Settled /\ SymmetricChain) =>
        /\ Rectangular =>
               ReversedWhenCollapsed(
                   mirror(atoms, slab, Plane(<<Zero, Zero>>, <<Zero, One>>),
                          FALSE))
        /\ ReversedWhenCollapsed(rotateAtoms(atoms, slab, <<Zero, Zero>>, 2))

\* the chain of the test (-1/4, 0, 1/4 in the cell diag(3, 4, 5)) after a
\* mirror or rotation and the collapse: its first atom is at 1/4
C21_Witness ==
    /\ Settled
    /\ last.op = "collapseCartesianCoordinates"
    /\ SymmetricChain
    /\ slab.ucell = RectCell
    /\ Len(slab.atlist) = 3
    /\ atoms[slab.atlist[1]].pos[1] = <<1, 4>>
    /\ atoms[slab.atlist[3]].pos[1] = <<3, 4>>

----------------------------------------------------------------------------
(* In-plane transformations of scaled slabs                                *)

InitIsometry ==
    InitFrom({SquareCell, ObliqueCell} \X Picks(Adsorbed) \X {FALSE})
NextIsometry == ShrinkA \/ TurnInPlane
SpecIsometry == InitIsometry /\ [][NextIsometry]_vars

\* the upper left 2x2 block of a 3x3 matrix
Block2(O) == <<<<O[1][1], O[1][2]>>, <<O[2][1], O[2][2]>>>>
\* the squared distance of the atoms i and j of the heap h
Distance2(h, i, j) == Norm2(VSub(h[i].cartpos, h[j].cartpos))
\* apply_matrix_transformation has just returned for an in-plane matrix
TurnedInPlane ==
    /\ last'.op = "apply_matrix_transformation"
    /\ last'.exc = ""
    /\ last'.arg[1][3] = <<Zero, Zero, One>>

\* what an in-plane transformation O is to leave: the cell O . ucell, the
\* fractional positions, the in-plane Cartesian positions turned by O, and
\* the distances of the atoms
TurnedAsAWhole ==
    /\ slab'.ucell = MatMul3(last'.arg[1], slab.ucell)
    /\ \A id \in Range(slab.atlist) :
           /\ atoms'[id].pos = atoms[id].pos
           /\ <<atoms'[id].cartpos[1], atoms'[id].cartpos[2]>>
                = Dot2(Block2(last'.arg[1]),
                       <<atoms[id].cartpos[1], atoms[id].cartpos[2]>>)
    /\ \A i \in Range(slab.atlist) : \A j \in Range(slab.atlist) :
           Distance2(atoms', i, j) = Distance2(atoms, i, j)

\* C22: apply_matrix_transformation(O) with an orthogonal O whose z row is
\* (0, 0, 1) leaves the unit cell O . ucell, every fractional position as it
\* was, every in-plane Cartesian position turned by O, and all distances
\* between atoms as they were
C22_InPlaneTransformationIsIsometry ==
    [][TurnedInPlane => TurnedAsAWhole]_vars

\* a quarter turn of a slab with two atoms along a has left it without a
\* vector a
C22_Witness ==
    /\ last.op = "apply_matrix_transformation"
    /\ last.arg[1] = Rz
    /\ last.exc = ""
    /\ Len(slab.atlist) = 2
    /\ Column(slab.ucell, 1) = <<Zero, Zero, Zero>>

\* the transformation is an isometry unless an entry of O . ucell is below
\* 1e-5
C22_IsometryOfCellsAboveThreshold ==
    [][(TurnedInPlane
          /\ Chopped(MatMul3(last'.arg[1], slab.ucell))
               = MatMul3(last'.arg[1], slab.ucell)) => TurnedAsAWhole]_vars

\* a quarter turn of an oblique cell with entries above the threshold
C22_WitnessAboveThreshold ==
    /\ last.op = "apply_matrix_transformation"
    /\ last.arg[1] = Rz
    /\ last.exc = ""
    /\ Len(slab.atlist) = 2
    /\ slab.ucell = MatMul3(Rz, ObliqueCell)

----------------------------------------------------------------------------
(* The PARAMETERS file and its editor (files/parameters/_write.py)         *)
(* A line of the file is [bang, param, value, comments]: bang tells a line *)
(* that starts with '!', param and value are the two sides of the '=' of   *)
(* an assignment (param is "" on every other line), comments are the       *)
(* texts after each '!' of the line, in order.                             *)

Assignment(param, value, comments) ==
    [bang |-> FALSE, param |-> param, value |-> value, comments |-> comments]
Blank == Assignment("", None, <<>>)
Remark(text) ==
    [bang |-> TRUE, param |-> "", value |-> None, comments |-> <<text>>]
_head_mark == "#  THE FOLLOWING LINES WERE GENERATED AUTOMATICALLY  #"
Rule == Remark("######################################################")
_header == <<Blank, Blank, Rule, Remark(_head_mark), Rule, Blank>>

\* '! <raw_line> ! <comment>'
CommentedOut(raw_line, comment) ==
    [raw_line EXCEPT !.bang = TRUE,
                     !.comments = Append(raw_line.comments, comment)]

\* strip_comments(line) of a text of no line or of one line: what stands
\* before the first '!'
strip_comments(text) ==
    IF text = <<>> \/ text[1].bang \/ text[1].param = ""
    THEN <<>>
    ELSE <<text[1].param, text[1].value>>

\* the parameter that RawLineParametersReader yields with a raw line
ReadParam(raw_line) == IF raw_line.bang THEN "" ELSE raw_line.param

\* the values of the Rparams attributes: BULK_LIKE_BELOW in units of 1e-5
Rparams == [BULK_LIKE_BELOW |-> 98762, N_BULK_LAYERS |-> 2, SITE_DEF |-> 1]
_simple_params == {"BULK_LIKE_BELOW"}
_string_params == {"N_BULK_LAYERS"}

\* f'{value:.4f}' of a value given in units of 1e-5: the digits in units
\* of 1e-4, rounded to the nearest
Format4f(value) == <<"%.4f", (value + 5) \div 10>>

\* ModifiedParameterValue._format_value: the formatted value, or None when
\* no formatting is available
_format_value(param, _raw_value) ==
    IF param \in _string_params THEN <<<<"%s", _raw_value>>>>
    ELSE IF param \in _simple_params THEN <<Format4f(_raw_value)>>
    ELSE None

\* ModifiedParameterValue._format_line
_format_line(param, fmt_value, comment) ==
    Assignment(param, fmt_value,
               IF comment # "" THEN <<comment>> ELSE <<>>)

\* ModifiedParameterValue(param, rpars_or_value, comment, only_comment_out):
\* <<the object>>, or None when it raises ValueError; rpars_or_value is
\* None for the Rparams object
ModifiedParameterValue(param, rpars_or_value, comment, only_comment_out) ==
    LET _raw_value == IF rpars_or_value = None THEN Rparams[param]
                      ELSE rpars_or_value[1]
        fmt == _format_value(param, _raw_value)
        made(line) == <<[param |-> param, comment |-> comment,
                         only_comment_out |-> only_comment_out,
                         already_written |-> FALSE, line |-> line]>>
    IN  IF only_comment_out THEN made(<<>>)
        ELSE IF fmt = None THEN None
        ELSE made(<<_format_line(param, fmt[1], comment)>>)

\* the outcome of a call on the editor
Edited(e, f, exc) == [editor |-> e, files |-> f, exc |-> exc]

\* d[key] = value of a dict kept as the list of its values in insertion
\* order, the key of a value its param
DictSet(d, value) ==
    IF \E i \in DOMAIN d : d[i].param = value.param
    THEN [i \in DOMAIN d |-> IF d[i].param = value.param THEN value ELSE d[i]]
    ELSE Append(d, value)

\* the position of key in the dict, 0 when it is not there
DictFind(d, key) ==
    IF \E i \in DOMAIN d : d[i].param = key
    THEN CHOOSE i \in DOMAIN d : d[i].param = key
    ELSE 0

\* ParametersFileEditor(rpars) in a directory whose manifest is empty
ParametersFileEditor ==
    [_should_save_existing_file |-> TRUE, _to_modify |-> <<>>,
     _has_header |-> FALSE, manifest |-> <<>>, entered |-> FALSE]

\* editor.save_existing_parameters_file()
oriname == "PARAMETERS_ori"
InList(x, list) == \E i \in DOMAIN list : list[i] = x
save_existing_parameters_file(e, f) ==
    IF ~e._should_save_existing_file THEN Edited(e, f, "")
    ELSE IF f.PARAMETERS = None \/ InList(oriname, e.manifest)
    THEN Edited([e EXCEPT !._should_save_existing_file = FALSE], f, "")
    ELSE Edited([e EXCEPT !._should_save_existing_file = FALSE,
                          !.manifest = Append(@, oriname)],
                [f EXCEPT !.PARAMETERS_ori = f.PARAMETERS], "")

\* _collect_lines: the (param, raw_line) pairs of the file
_collect_lines(f) == IF f.PARAMETERS = None THEN <<>> ELSE f.PARAMETERS[1]

_get_comment_line_for(modified, raw_line) ==
    IF modified.only_comment_out
    THEN CommentedOut(raw_line,
                      IF modified.comment # "" THEN modified.comment
                      ELSE "line commented out automatically")
    ELSE CommentedOut(raw_line, "line automatically changed to:")

_is_unchanged(modified, raw_line) ==
    strip_comments(modified.line) = strip_comments(<<raw_line>>)

\* the file being written: w = [out, _to_modify, _has_header]
\* _write_new_parameter_line(modified) for the entry at position k
_write_new_parameter_line(w, k) ==
    IF w._to_modify[k].only_comment_out \/ w._to_modify[k].already_written
    THEN w
    ELSE [w EXCEPT !.out = @ \o w._to_modify[k].line,
                   !._to_modify[k].already_written = TRUE]

_write_one_line(w, param, raw_line) ==
    LET k == DictFind(w._to_modify, param)
    IN  IF param = "" THEN [w EXCEPT !.out = Append(@, raw_line)]
        ELSE IF k = 0 \/ _is_unchanged(w._to_modify[k], raw_line)
        THEN [w EXCEPT !.out = Append(@, raw_line)]
        ELSE _write_new_parameter_line(
                 [w EXCEPT !.out = Append(@, _get_comment_line_for(
                                                w._to_modify[k], raw_line))],
                 k)

\* the lines of the modified values from position k on that were not
\* written
RECURSIVE MissingLines(_, _)
MissingLines(d, k) ==
    IF k > Len(d) THEN <<>>
    ELSE (IF d[k].already_written THEN <<>> ELSE d[k].line)
         \o MissingLines(d, k + 1)

_write_missing_parameters(w) ==
    IF \A k \in DOMAIN w._to_modify : w._to_modify[k].already_written
    THEN w
    ELSE [w EXCEPT !.out = (IF w._has_header THEN @ ELSE @ \o _header)
                           \o MissingLines(w._to_modify, 1)]

\* the loop over the lines of write_modified_parameters, from line i on
RECURSIVE WriteLines(_, _, _)
WriteLines(w, lines, i) ==
    IF i > Len(lines) THEN w
    ELSE WriteLines(
             _write_one_line(
                 [w EXCEPT !._has_header =
                     @ \/ InList(_head_mark, lines[i].comments)],
                 ReadParam(lines[i]), lines[i]),
             lines, i + 1)

\* what write_modified_parameters does after saving the existing file
Rewritten(e, f) ==
    LET manifest == IF InList("PARAMETERS", e.manifest) THEN e.manifest
                    ELSE Append(e.manifest, "PARAMETERS")
        w == _write_missing_parameters(
                 WriteLines([out |-> <<>>, _to_modify |-> e._to_modify,
                             _has_header |-> FALSE],
                            _collect_lines(f), 1))
    IN  IF e._to_modify = <<>>
        THEN Edited([e EXCEPT !.manifest = manifest], f, "")
        ELSE Edited([e EXCEPT !.manifest = manifest, !._to_modify = <<>>,
                              !._has_header = w._has_header],
                    [f EXCEPT !.PARAMETERS = <<Tuple(w.out)>>], "")

\* editor.write_modified_parameters()
write_modified_parameters(e, f) ==
    LET saved == save_existing_parameters_file(e, f)
    IN  Rewritten(saved.editor, saved.files)

\* editor.modify_param(param, new_value, comment)
modify_param_AndWrite(e, f, param, new_value, comment) ==
    LET mod_param == ModifiedParameterValue(param, new_value, comment, FALSE)
    IN  IF mod_param = None THEN Edited(e, f, "ValueError")
        ELSE write_modified_parameters(
                 [e EXCEPT !._to_modify = DictSet(@, mod_param[1])], f)

modify_param(e, f, param, new_value, comment) ==
    LET mod_param == ModifiedParameterValue(param, new_value, comment, FALSE)
    IN  IF mod_param = None THEN Edited(e, f, "ValueError")
        ELSE Edited([e EXCEPT !._to_modify = DictSet(@, mod_param[1])], f, "")

\* editor.comment_out_parameter(param, comment)
comment_out_parameter(e, f, param, comment) ==
    LET commented == ModifiedParameterValue(param, None, comment, TRUE)
    IN  Edited([e EXCEPT !._to_modify = DictSet(@, commented[1])], f, "")

\* editor.__exit__()
__exit__(e, f) ==
    LET written == write_modified_parameters(e, f)
    IN  Edited([written.editor EXCEPT !.entered = FALSE], written.files, "")

----------------------------------------------------------------------------
(* Editing a PARAMETERS file                                               *)

MaxLines == 5
MaxPending == 2

\* the PARAMETERS files of the work directory before the editor is made
OldLines ==
    {<<Assignment("BULK_LIKE_BELOW", Format4f(90000), <<>>),
       Assignment("N_BULK_LAYERS", <<"%s", 1>>, <<"bulk">>)>>,
     <<Remark("input"),
       Assignment("BULK_LIKE_BELOW", Format4f(98760), <<"as before">>),
       Assignment("SITE_DEF", <<"%s", 1>>, <<>>),
       Remark(_head_mark),
       Assignment("BULK_LIKE_BELOW", Format4f(50000), <<>>)>>}
Directories ==
    {[PARAMETERS |-> None, PARAMETERS_ori |-> None]}
    \cup {[PARAMETERS |-> <<lines>>, PARAMETERS_ori |-> None] :
            lines \in OldLines}

EditedParams == {"BULK_LIKE_BELOW", "N_BULK_LAYERS", "SITE_DEF"}
NewValues == {None, <<98760>>}
Comments == {"", "Decreasing digits"}

InitEditor ==
    /\ atoms = <<>>
    /\ slab = None
    /\ sc = None
    /\ last = [op |-> "new", arg |-> <<>>, exc |-> "", ret |-> None]
    /\ files \in Directories
    /\ editor = ParametersFileEditor

Edits(op, arg, r) ==
    /\ files' = r.files
    /\ editor' = r.editor
    /\ last' = [op |-> op, arg |-> arg, exc |-> r.exc, ret |-> None]
    /\ UNCHANGED <<atoms, slab, sc>>

\* whether one more modification may be requested
Editable ==
    /\ Len(editor._to_modify) < MaxPending
    /\ Len(_collect_lines(files)) <= MaxLines

\* with ParametersFileEditor(rpars) as editor:
Enter ==
    /\ ~editor.entered
    /\ Edits("__enter__", <<>>,
             Edited([editor EXCEPT !.entered = TRUE], files, ""))

ModifyParam ==
    /\ Editable
    /\ \E param \in EditedParams, new_value \in NewValues,
          comment \in Comments :
           Edits("modify_param", <<param, new_value, comment>>,
                 modify_param(editor, files, param, new_value, comment))

CommentOutParameter ==
    /\ Editable
    /\ \E param \in EditedParams, comment \in Comments :
           Edits("comment_out_parameter", <<param, comment>>,
                 comment_out_parameter(editor, files, param, comment))

WriteModifiedParameters ==
    Edits("write_modified_parameters", <<>>,
          write_modified_parameters(editor, files))

\* the end of the with block
Exit ==
    /\ editor.entered
    /\ Edits("__exit__", <<>>, __exit__(editor, files))

NextEditor ==
    \/ Enter
    \/ ModifyParam
    \/ CommentOutParameter
    \/ WriteModifiedParameters
    \/ Exit
SpecEditor == InitEditor /\ [][NextEditor]_vars

\* the lines of the PARAMETERS file, none when there is no file
FileLines(f) == _collect_lines(f)

\* whether the file holds the line of the modified value, comment
\* included, and no other assignment of its parameter
HoldsNewLine(lines, modified) ==
    /\ InList(modified.line[1], lines)
    /\ \A i \in DOMAIN lines :
           ReadParam(lines[i]) = modified.param
               => strip_comments(<<lines[i]>>)
                      = strip_comments(modified.line)

\* whether every assignment of the parameter that the file held stands
\* commented out, with the comment of the request, and none is left
HoldsCommentedOut(before, lines, modified) ==
    /\ \A i \in DOMAIN lines : ReadParam(lines[i]) # modified.param
    /\ \A i \in DOMAIN before :
           ReadParam(before[i]) = modified.param
               => InList(_get_comment_line_for(modified, before[i]), lines)

\* C23: a request made with modify_param or comment_out_parameter leaves
\* every file of the directory as it was; write_modified_parameters and
\* the exit of the context rewrite PARAMETERS when requests are pending,
\* after which the file holds the new line of every modified parameter
\* with its comment, every line of a parameter to comment out stands
\* commented out, and no request is pending any more, so that the file is
\* written once; with no request pending the PARAMETERS file keeps its
\* content.
C23_EditorWritesOnceAtExit ==
    [][/\ last'.op \in {"modify_param", "comment_out_parameter"}
           => files' = files
       /\ last'.op \in {"write_modified_parameters", "__exit__"}
           => /\ editor'._to_modify = <<>>
              /\ editor._to_modify = <<>>
                   => files'.PARAMETERS = files.PARAMETERS
              /\ \A k \in DOMAIN editor._to_modify :
                   IF editor._to_modify[k].only_comment_out
                   THEN HoldsCommentedOut(FileLines(files), FileLines(files'),
                                          editor._to_modify[k])
                   ELSE HoldsNewLine(FileLines(files'),
                                     editor._to_modify[k])]_vars

\* the context was left with two requests pending on a file that held the
\* parameter of one of them, and the file was rewritten
C23_Witness ==
    /\ last.op = "__exit__"
    /\ ~editor.entered
    /\ files.PARAMETERS # None
    /\ files.PARAMETERS_ori # None
    /\ files.PARAMETERS # files.PARAMETERS_ori
    /\ InList(Assignment("BULK_LIKE_BELOW", Format4f(98762),
                         <<"Decreasing digits">>), FileLines(files))
    /\ InList(CommentedOut(Assignment("N_BULK_LAYERS", <<"%s", 1>>,
                                      <<"bulk">>),
                           "line commented out automatically"),
              FileLines(files))

----------------------------------------------------------------------------
(* The origin of the Cartesian z axis                                      *)

\* slabs as read from a file, whose coordinates are computed, wrapped and
\* mirrored in z
InitOrigin ==
    \E ucell \in {SquareCell, ObliqueCell} :
        \E cfg \in Picks(RawSites) :
            \E w \in {RawSlab(ucell, cfg)} :
                /\ atoms = w.atoms
                /\ slab = w.slab
                /\ sc = None
                /\ last = [op |-> "new", arg |-> <<>>, exc |-> "",
                           ret |-> None]
                /\ files = None
                /\ editor = None
NextOrigin ==
    \/ GetCartesianCoordinates
    \/ CollapseFractionalCoordinates
    \/ MirrorZ
SpecOrigin == InitOrigin /\ [][NextOrigin]_vars

\* the atoms of the largest fractional z
Topmost(h, s) ==
    {id \in Range(s.atlist) :
        \A other \in Range(s.atlist) : RLe(h[other].pos[3], h[id].pos[3])}

\* the z component of ucell . pos of the atoms of largest fractional z
TopCartZ(h, s) == {Dot3(s.ucell, h[id].pos)[3] : id \in Topmost(h, s)}

\* whether a step is getCartesianCoordinates(updateOrigin)
CartesianStep(updateOrigin) ==
    /\ last'.op = "getCartesianCoordinates"
    /\ last'.arg = <<updateOrigin>>
    /\ last'.exc = ""

\* C24 (the cached origin): getCartesianCoordinates(updateOrigin=False)
\* leaves a cached topat_ori_z as it is; with updateOrigin true, or with
\* nothing cached, topat_ori_z becomes the z of ucell . pos of the atom of
\* largest fractional z.
C24_CachedOriginKeptUnlessAsked ==
    [][/\ (CartesianStep(FALSE) /\ slab.topat_ori_z # None)
           => slab'.topat_ori_z = slab.topat_ori_z
       /\ (CartesianStep(TRUE) \/ (CartesianStep(FALSE)
                                   /\ slab.topat_ori_z = None))
           => /\ slab'.topat_ori_z # None
              /\ slab'.topat_ori_z[1] \in TopCartZ(atoms, slab)]_vars

\* getCartesianCoordinates() found an origin cached that is not the height
\* of the topmost atom any more, and kept it
C24_WitnessStaleOrigin ==
    /\ last.op = "getCartesianCoordinates"
    /\ last.arg = <<FALSE>>
    /\ slab.topat_ori_z # None
    /\ slab.topat_ori_z[1] \notin TopCartZ(atoms, slab)

\* C24: getCartesianCoordinates(updateOrigin=False) never changes a cached
\* topat_ori_z; after getCartesianCoordinates(updateOrigin=True) the atom
\* of largest fractional z has Cartesian z = 0 and every other atom has
\* Cartesian z >= 0.
C24_TopmostAtZeroOthersBelow ==
    [][/\ (CartesianStep(FALSE) /\ slab.topat_ori_z # None)
           => slab'.topat_ori_z = slab.topat_ori_z
       /\ CartesianStep(TRUE)
           => /\ \A id \in Topmost(atoms', slab') :
                    atoms'[id].cartpos[3] = Zero
              /\ \A id \in Range(slab'.atlist) :
                    RLe(Zero, atoms'[id].cartpos[3])]_vars

\* getCartesianCoordinates(updateOrigin=True) was called on a slab of two
\* heights whose c vector points down
C24_Witness ==
    /\ last.op = "getCartesianCoordinates"
    /\ last.arg = <<TRUE>>
    /\ RLt(slab.ucell[3][3], Zero)
    /\ \E id \in Range(slab.atlist) : RLt(atoms[id].cartpos[3], Zero)

\* C24 (cells whose c vector points up): while the z component of c is
\* positive, getCartesianCoordinates(updateOrigin=True) leaves the atom of
\* largest fractional z at Cartesian z = 0 and every other atom at z >= 0.
C24_TopmostAtZeroWhenCPointsUp ==
    [][(CartesianStep(TRUE) /\ RLt(Zero, slab.ucell[3][3]))
           => /\ \A id \in Topmost(atoms', slab') :
                    atoms'[id].cartpos[3] = Zero
              /\ \A id \in Range(slab'.atlist) :
                    RLe(Zero, atoms'[id].cartpos[3])]_vars

C24_WitnessCPointsUp ==
    /\ last.op = "getCartesianCoordinates"
    /\ last.arg = <<TRUE>>
    /\ RLt(Zero, slab.ucell[3][3])
    /\ \E id \in Range(slab.atlist) : RLt(Zero, atoms[id].cartpos[3])

----------------------------------------------------------------------------
(* Empty layers and the bulk flag                                          *)

\* silver atoms stacked along c, up to two above the highest cut
UpperHeights == {<<3, 8>>, <<5, 8>>, <<7, 8>>}
UpperStacks ==
    UNION {[1..n -> [el : {"Ag"}, pos : {<<Zero, Zero, z>> : z \in UpperHeights}]] :
             n \in 1..MaxAtoms}
InitBulkFlags == InitFrom({SquareCell} \X UpperStacks \X {FALSE})
NextBulkFlags == CreateLayers
SpecBulkFlags == InitBulkFlags /\ [][NextBulkFlags]_vars

\* the number createLayers gives the layer of an atom at height z: the
\* number of cuts below z
BuiltLayerOf(z, ct) == Cardinality({i \in DOMAIN ct : RLt(ct[i], z)})

\* the numbers of the layers that createLayers builds with atoms in them
Populated(ct) == {BuiltLayerOf(atoms[id].pos[3], ct) : id \in Range(slab.atlist)}

\* the layer of the slab that holds the atoms of the built layer k
SurvivorOf(k, ct) ==
    CHOOSE l \in Range(slab.layers) :
        \E id \in AtomsIn(l) : BuiltLayerOf(atoms[id].pos[3], ct) = k

\* whether the bulk flag of every empty layer built below N_BULK_LAYERS is
\* found on the nearest populated layer above it
BulkFlagHandedUp(ct, N_BULK_LAYERS) ==
    \A k \in 0..(N_BULK_LAYERS - 1) :
        (k \notin Populated(ct) /\ \E up \in Populated(ct) : up > k) =>
            \E up \in Populated(ct) :
                /\ up > k
                /\ \A other \in Populated(ct) : other > k => up <= other
                /\ \E l \in Range(slab.layers) :
                      \E id \in AtomsIn(l) :
                          BuiltLayerOf(atoms[id].pos[3], ct) = up
                /\ SurvivorOf(up, ct).isBulk

\* whether the bulk layers are the lowest layers of the list, which runs
\* top-down
BulkAtBottom(layers) ==
    \A i \in DOMAIN layers : \A j \in DOMAIN layers :
        (i < j /\ layers[i].isBulk) => layers[j].isBulk

NoEmptyLayer(layers) == \A i \in DOMAIN layers : layers[i].atlist # <<>>

\* C25: createLayers leaves no empty layer in the slab; the bulk flag of
\* every removed empty layer is found afterwards on the nearest surviving
\* layer above it, also when several layers are empty; the bulk layers are
\* one block at the bottom of the slab.
C25_EmptyLayersHandBulkFlagUp ==
    (last.op = "createLayers" /\ last.exc # "InvalidUnitCellError") =>
        /\ NoEmptyLayer(slab.layers)
        /\ BulkFlagHandedUp(last.arg[1], last.arg[2])
        /\ BulkAtBottom(slab.layers)

\* createLayers has returned after removing two empty layers, the lower
\* one flagged bulk
C25_Witness ==
    /\ last.op = "createLayers" /\ last.exc = ""
    /\ Len(last.arg[1]) = 3
    /\ last.arg[2] = 1
    /\ Populated(last.arg[1]) = {2, 3}
    /\ ~BulkAtBottom(slab.layers)

\* C25 (one empty layer): when createLayers returns, no layer of the slab
\* is empty; when at most one of the layers it built was empty, the bulk
\* flag of that layer is on the nearest layer above it and the bulk layers
\* are one block at the bottom.
C25_OneEmptyLayerHandsBulkFlagUp ==
    (last.op = "createLayers" /\ last.exc = "") =>
        /\ NoEmptyLayer(slab.layers)
        /\ Cardinality((0..Len(last.arg[1])) \ Populated(last.arg[1])) <= 1
             => /\ BulkFlagHandedUp(last.arg[1], last.arg[2])
                /\ BulkAtBottom(slab.layers)

C25_WitnessOneEmptyLayer ==
    /\ last.op = "createLayers" /\ last.exc = ""
    /\ last.arg[2] = 1
    /\ Len(last.arg[1]) = 2
    /\ Populated(last.arg[1]) = {1, 2}
    /\ Len(slab.layers) = 2
    /\ slab.layers[2].isBulk

----------------------------------------------------------------------------
(* Sublayers of thick stacks                                               *)

MaxStack == 4

\* silver atoms above each other, one eighth of c apart or more
Ladder ==
    [k \in 1..6 |-> [el |-> "Ag", pos |-> <<Zero, Zero, <<k - 1, 8>>>>]]
InitStacks == InitFrom({SquareCell} \X PicksUpTo(Ladder, MaxStack) \X {FALSE})
NextStacks == CreateSublayers
SpecStacks == InitStacks /\ [][NextStacks]_vars

\* the cluster lists of element el after the first pass
FirstPass(el, eps) ==
    LET IsEl(id) == atoms[id].el = el
    IN  SplitAtGaps(atoms, <<Filter(SortedByZ(atoms, slab.atlist), IsEl)>>,
                    1, eps)

\* the distance in z of atom j of a cluster from the one before it
GapBefore(ls, j) ==
    RAbs(RSub(atoms[ls[j]].cartpos[3], atoms[ls[j - 1]].cartpos[3]))
\* the distance in z of the first and the last atom of a cluster
Span(ls) ==
    RAbs(RSub(atoms[ls[1]].cartpos[3], atoms[ls[Len(ls)]].cartpos[3]))

\* the first of the largest gaps of a cluster
LargestGap(ls) ==
    CHOOSE j \in 2..Len(ls) :
        /\ \A k \in 2..Len(ls) : RLe(GapBefore(ls, k), GapBefore(ls, j))
        /\ \A k \in 2..(j - 1) : RLt(GapBefore(ls, k), GapBefore(ls, j))

\* the clusters a cluster ends as when every cluster thicker than eps is
\* split at its largest gap
RECURSIVE SplitWhileThick(_, _)
SplitWhileThick(ls, eps) ==
    IF Len(ls) <= 1 \/ RLe(Span(ls), eps) THEN {ls}
    ELSE SplitWhileThick(SubSeq(ls, 1, LargestGap(ls) - 1), eps)
           \cup SplitWhileThick(SubSeq(ls, LargestGap(ls), Len(ls)), eps)

\* whether createSublayers(eps) has returned
Sublayered26 == last.op = "createSublayers" /\ last.exc = ""

\* whether no cluster of the first pass has two consecutive atoms more
\* than eps apart
NoGapAfterFirstPass(eps) ==
    \A el \in Range(slab.elements) :
        \A ls \in Range(FirstPass(el, eps)) :
            \A j \in 2..Len(ls) : RLe(GapBefore(ls, j), eps)

\* C26: after the first pass of createSublayers(eps) no cluster has two
\* z-consecutive atoms more than eps apart; every cluster that is thicker
\* than eps is split at its first largest gap, in whatever place of the
\* work list it stands, so that the sublayers are the clusters of the first
\* pass split while thicker than eps and none of them is thicker than eps.
C26_ThickClustersAreSplit ==
    Sublayered26 =>
        /\ NoGapAfterFirstPass(last.arg[1])
        /\ {slab.sublayers[i].atlist : i \in DOMAIN slab.sublayers}
             = UNION {SplitWhileThick(ls, last.arg[1]) :
                        ls \in UNION {Range(FirstPass(el, last.arg[1])) :
                                        el \in Range(slab.elements)}}
        /\ \A i \in DOMAIN slab.sublayers :
             RLe(Span(slab.sublayers[i].atlist), last.arg[1])

\* createSublayers(1) has returned a sublayer of three atoms, two units
\* thick, that stood behind a single atom in the work list
C26_Witness ==
    /\ Sublayered26
    /\ last.arg[1] = Q(1)
    /\ \E i \in DOMAIN slab.sublayers :
          /\ Len(slab.sublayers[i].atlist) = 3
          /\ RLt(last.arg[1], Span(slab.sublayers[i].atlist))
    /\ \E i \in DOMAIN slab.sublayers : Len(slab.sublayers[i].atlist) = 1

\* C26 (first pass; work lists without single atoms): the first pass leaves
\* no two consecutive atoms of a cluster more than eps apart, and neither
\* does a sublayer hold two; when no sublayer is a single atom, the
\* sublayers are the clusters of the first pass split while thicker than
\* eps, and none is thicker than eps.
C26_FirstPassLeavesNoGap ==
    Sublayered26 =>
        /\ NoGapAfterFirstPass(last.arg[1])
        /\ \A i \in DOMAIN slab.sublayers :
             \A j \in 2..Len(slab.sublayers[i].atlist) :
                RLe(GapBefore(slab.sublayers[i].atlist, j), last.arg[1])
        /\ (\A i \in DOMAIN slab.sublayers :
              Len(slab.sublayers[i].atlist) > 1) =>
             /\ {slab.sublayers[i].atlist : i \in DOMAIN slab.sublayers}
                  = UNION {SplitWhileThick(ls, last.arg[1]) :
                             ls \in UNION {Range(FirstPass(el, last.arg[1])) :
                                             el \in Range(slab.elements)}}
             /\ \A i \in DOMAIN slab.sublayers :
                  RLe(Span(slab.sublayers[i].atlist), last.arg[1])

C26_WitnessFirstPass ==
    /\ Sublayered26
    /\ last.arg[1] = Q(1)
    /\ Len(slab.atlist) = 4
    /\ Len(slab.sublayers) = 2
    /\ \A i \in DOMAIN slab.sublayers : Len(slab.sublayers[i].atlist) = 2

----------------------------------------------------------------------------
(* The greedy reduction of the cell                                        *)

\* the atom lists of 1..most of the atoms of the list sites, in any order
OrdersUpTo(sites, most) ==
    UNION {{[k \in 1..n |-> sites[f[k]]] :
              f \in {g \in [1..n -> DOMAIN sites] :
                        \A i \in 1..n : \A j \in 1..n : i # j => g[i] # g[j]}} :
           n \in 1..most}

InitGreedy ==
    InitFrom({SquareCell, ObliqueCell}
             \X OrdersUpTo(SubSeq(Halves, 1, 4), MaxCellAtoms) \X {FALSE})
NextGreedy == GetMinUnitCell
SpecGreedy == InitGreedy /\ [][NextGreedy]_vars

\* the cell that the loop over the candidate vectors cands ends with
ReachedCell(cands, eps) ==
    Tuple(Reduced([mincell |-> CellRows(slab), smaller |-> FALSE], cands,
                  1, RMul(SlabArea, <<1, FewestAtoms>>), eps).mincell)

\* whether the cell of a vector of the reached cell and a candidate vector
\* has an area of at least the area of the slab's cell over the number of
\* atoms, and smaller than that of the reached cell by more than eps^2
StillImproves(v, cand, reached, eps) ==
    /\ RLe(RMul(SlabArea, <<1, FewestAtoms>>), Area(<<v, cand>>))
    /\ RLt(Area(<<v, cand>>), RSub(Area(reached), RMul(eps, eps)))

\* whether no candidate improves the reached cell
FixedPoint(cands, reached, eps) ==
    \A k \in DOMAIN cands : \A i \in 1..2 :
        ~StillImproves(reached[i], cands[k], reached, eps)

\* whether the loop over the candidates cands ends at a fixed point
EndsAtFixedPoint(cands, eps) ==
    FixedPoint(cands, ReachedCell(cands, eps), eps)

\* whether getMinUnitCell has returned for a sublayer of several atoms
Greedy ==
    /\ last.op = "getMinUnitCell"
    /\ last.exc = ""
    /\ FewestAtoms >= 2

TwiceReduced(cands, eps) ==
    /\ Len(cands) = 6
    /\ cands[1][1] # Zero
    /\ cands[1][2] # Zero
    /\ RMul(Q(4), Area(ReachedCell(cands, eps))) = SlabArea

----------------------------------------------------------------------------
(* The translation test and the chemical elements                          *)

\* the in-plane part of the translation vector of the last test
ShiftOf == <<last.arg[1][1], last.arg[1][2]>>

\* whether the translated atom x falls, in plane, within eps and modulo the
\* lattice, on an atom of the set ids
FallsOnOneOf(x, ids) ==
    \E y \in ids :
        Coincide(VAdd(InPlaneOf(x), ShiftOf), InPlaneOf(y), last.arg[2])

\* whether the translation test has returned True
TranslationFound ==
    /\ last.op = "isTranslationSymmetric"
    /\ last.exc = ""
    /\ last.ret = <<TRUE>>

\* C28: isTranslationSymmetric returns True only if every translated atom
\* coincides, within eps and modulo the lattice, with an atom of its own
\* chemical element; a translation that moves an atom onto a site that only
\* an atom of another element occupies is not reported as a symmetry.
C28_TranslationMapsElementsOntoThemselves ==
    TranslationFound =>
        \A x \in Range(slab.atlist) :
            FallsOnOneOf(x, {y \in Range(slab.atlist) :
                                atoms[y].el = atoms[x].el})

\* the test has returned True for the translation by a/2 that exchanges the
\* sites of an Ag and an O atom
C28_Witness ==
    /\ TranslationFound
    /\ ShiftOf = <<Q(2), Zero>>
    /\ Len(slab.atlist) = 2
    /\ atoms[slab.atlist[1]].el # atoms[slab.atlist[2]].el
    /\ FallsOnOneOf(slab.atlist[1], {slab.atlist[2]})
    /\ ~FallsOnOneOf(slab.atlist[1], {slab.atlist[1]})

\* C28 (atoms of any element): isTranslationSymmetric returns True only if
\* every translated atom coincides in plane, within eps and modulo the
\* lattice, with some atom of the slab.
C28_TranslationMapsAtomsOntoAtoms ==
    TranslationFound =>
        \A x \in Range(slab.atlist) : FallsOnOneOf(x, Range(slab.atlist))

----------------------------------------------------------------------------
(* The copies of the atoms in a supercell                                  *)

\* integer matrices of determinant 1 to 4 with a positive entry
Replications ==
    {QMat(m) : m \in {<<<<1, 0>>, <<0, 1>>>>, <<<<2, 0>>, <<0, 1>>>>,
                      <<<<1, 0>>, <<0, 2>>>>, <<<<2, 0>>, <<0, 2>>>>,
                      <<<<3, 0>>, <<0, 1>>>>, <<<<1, 1>>, <<-1, 1>>>>,
                      <<<<1, -1>>, <<1, 2>>>>, <<<<2, 1>>, <<0, 2>>>>,
                      <<<<1, 2>>, <<-1, 2>>>>, <<<<1, 1>>, <<-2, 2>>>>,
                      <<<<2, 2>>, <<-1, 1>>>>, <<<<1, 1>>, <<0, 1>>>>}}
Replicate == MakeSupercellWith(Replications)

InitReplicas ==
    InitFrom({SquareCell, ObliqueCell} \X Picks(Adsorbed) \X BOOLEAN)
NextReplicas == Replicate
SpecReplicas == InitReplicas /\ [][NextReplicas]_vars

\* whether no two atoms of the slab s are at one place modulo its lattice
AtomsApart(s) ==
    \A i \in DOMAIN s.atlist : \A j \in DOMAIN s.atlist :
        i # j => ~LatticeVector(s.ucell, atoms[s.atlist[i]].cartpos,
                                atoms[s.atlist[j]].cartpos)

\* whether every atom of the slab has an atom of its element at its place
\* in the supercell
OriginalsInPlace ==
    \A x \in Range(slab.atlist) : \E y \in Range(sc[1].atlist) :
        /\ atoms[y].el = atoms[x].el
        /\ atoms[y].cartpos = atoms[x].cartpos

\* whether makeSupercell has returned a supercell
Replicated ==
    /\ IntegerTransform
    /\ last.exc = ""
    /\ sc # None
    /\ last.ret = sc

\* C29: for every integer 2x2 matrix M with abs(det M) >= 1, when no two
\* atoms of the slab are at the same place modulo the lattice of a and b,
\* no two atoms of the slab that makeSupercell(M) returns are at the same
\* place modulo the new lattice, and every atom of the slab keeps its place.
C29_CopiesAreInequivalent ==
    (Replicated /\ AtomsApart(slab)) =>
        /\ AtomsApart(sc[1])
        /\ OriginalsInPlace

\* the supercell of [[1, 1], [-2, 2]] has four atoms for each atom of the
\* slab, two of them one vector a' = a + b apart
C29_Witness ==
    /\ Replicated
    /\ last.arg[1] = QMat(<<<<1, 1>>, <<-2, 2>>>>)
    /\ AtomsApart(slab)
    /\ Len(sc[1].atlist) = 4 * Len(slab.atlist)
    /\ ~AtomsApart(sc[1])
    /\ OriginalsInPlace

\* C29 (diagonal matrices): for a diagonal matrix M with positive entries
\* the atoms of the supercell are apart when those of the slab are, and for
\* every M the atoms of the slab keep their place.
C29_DiagonalCopiesAreInequivalent ==
    (Replicated /\ AtomsApart(slab)) =>
        /\ OriginalsInPlace
        /\ (last.arg[1][1][2] = Zero /\ last.arg[1][2][1] = Zero)
             => AtomsApart(sc[1])

C29_WitnessDiagonal ==
    /\ Replicated
    /\ last.arg[1] = QMat(<<<<2, 0>>, <<0, 2>>>>)
    /\ Len(sc[1].atlist) = 8
    /\ AtomsApart(sc[1])

----------------------------------------------------------------------------
(* The nearest-neighbour query                                             *)

\* np.ceil(max_length / np.linalg.norm(v)) from the squared lengths: the
\* least n with n * n >= max2 / norm2
CeilOfLengthRatio(max2, norm2) ==
    LET r == RMul(max2, RInv(norm2))
    IN  CHOOSE n \in 1..(RFloor(r) + 1) :
            /\ RLe(r, Q(n * n))
            /\ \A k \in 1..(n - 1) : RLt(Q(k * k), r)

\* tree.query(coord, k=2)[0][1] on the points coords, squared: the distance
\* to the second of the two nearest points
SecondNearest2(coords, coord) ==
    LET d2 == [k \in DOMAIN coords |-> Norm2(VSub(coords[k], coord))]
    IN  RMin({d \in Range(d2) :
                Cardinality({k \in DOMAIN d2 : RLe(d2[k], d)}) >= 2})

\* the loop over self.atlist given the supercell: coord is at.cartpos
\* itself, and coord += ... adds to it in place
Queried(h, s, atom_coords, shift) ==
    LET coord(id) == VAdd(h[id].cartpos, shift)
    IN  Outcome([id \in DOMAIN h |->
                    IF id \in Range(s.atlist)
                    THEN [h[id] EXCEPT !.cartpos = coord(id)]
                    ELSE h[id]],
                s, "",
                Tuple([k \in DOMAIN s.atlist |->
                        SecondNearest2(atom_coords, coord(s.atlist[k]))]))

\* BaseSlab.getNearestNeigbours: the distances are returned squared, in the
\* order of the atom list; the supercell and its atoms are dropped
getNearestNeigbours(h, s) ==
    LET a == Column(s.ucell, 1)
        b == Column(s.ucell, 2)
        max2 == RMax({Norm2(a), Norm2(b)})
        i == CeilOfLengthRatio(max2, Norm2(a))
        j == CeilOfLengthRatio(max2, Norm2(b))
        transform == QMat(<<<<2 * i + 1, 0>>, <<0, 2 * j + 1>>>>)
        supercell == makeSupercell(h, s, transform)
    IN  IF supercell.exc # "" THEN Outcome(h, s, supercell.exc, None)
        ELSE Queried(h, s,
                     [k \in DOMAIN supercell.ret[1].atlist |->
                        supercell.atoms[supercell.ret[1].atlist[k]].cartpos],
                     VAdd(VScale(Q(i + 1), Tuple(a)),
                          VScale(Q(j + 1), Tuple(b))))

\* the largest Cartesian coordinate of an atom that is queried
MaxReach == 40
WithinReach ==
    \A id \in Range(slab.atlist) : \A k \in 1..2 :
        RLe(RAbs(atoms[id].cartpos[k]), Q(MaxReach))

\* slab.getNearestNeigbours()
GetNearestNeigbours ==
    /\ WithinReach
    /\ \E r \in {getNearestNeigbours(atoms, slab)} :
        /\ Returns("getNearestNeigbours", <<>>, r)
        /\ UNCHANGED sc

InitNeighbours ==
    InitFrom({SquareCell, ObliqueCell} \X Picks(InPlane) \X {FALSE})
NextNeighbours == GetNearestNeigbours \/ GetCartesianCoordinates
SpecNeighbours == InitNeighbours /\ [][NextNeighbours]_vars

\* the fractional positions, the atom list and the unit cell are those of
\* before the step
SameCellAndFractions ==
    /\ slab' = slab
    /\ DOMAIN atoms' = DOMAIN atoms
    /\ \A id \in DOMAIN atoms : atoms'[id].pos = atoms[id].pos

\* C30: getNearestNeigbours is a pure query: after the call the Cartesian
\* position and the fractional position of every atom and the unit cell are
\* the same as before, and a call right after another returns the same
\* distances.
C30_NearestNeighboursIsPureQuery ==
    [][last'.op = "getNearestNeigbours" =>
        /\ last'.exc = ""
        /\ SameCellAndFractions
        /\ \A id \in DOMAIN atoms : atoms'[id].cartpos = atoms[id].cartpos
        /\ last.op = "getNearestNeigbours" => last'.ret = last.ret]_vars

\* after a query the atoms are not where the unit cell and their fractional
\* positions put them, and the query would now return other distances
C30_Witness ==
    /\ last.op = "getNearestNeigbours"
    /\ last.exc = ""
    /\ \A id \in Range(slab.atlist) :
        atoms[id].cartpos
            # getCartesianCoordinates(atoms, slab, FALSE).atoms[id].cartpos
    /\ WithinReach
    /\ getNearestNeigbours(atoms, slab).ret # last.ret

\* C30 (cell and fractions): getNearestNeigbours returns one distance for
\* each atom and leaves the unit cell, the atom list and the fractional
\* position of every atom as they were.
C30_QueryKeepsCellAndFractions ==
    [][last'.op = "getNearestNeigbours" =>
        /\ last'.exc = ""
        /\ Len(last'.ret) = Len(slab.atlist)
        /\ SameCellAndFractions]_vars

C30_WitnessCellAndFractions ==
    /\ last.op = "getNearestNeigbours"
    /\ Len(last.ret) = 2
    /\ slab.ucell = ObliqueCell

====
